---- MODULE Spec2Model ----
(***************************************************************************)
(* A model of the RAG core of the repository: scored retrieval over the    *)
(* shared FAISS store (src/src/core.py, src/src/utils.py), the persisted   *)
(* snapshot and its rebuild (src/src/ingestion.py), and the runs of the    *)
(* two callers (src/cli.py, src/app.py).                                   *)
(***************************************************************************)
EXTENDS Integers, Sequences, FiniteSets, TLC

VARIABLES
    db,         \* the in-memory vector store handed to the retrieval functions
    out,        \* what the last retrieval call gave back to its caller
    dataVer,    \* the content of the data directory: the number of uploads so far
    disk,       \* the snapshot directory: the files index.faiss and index.pkl
    builder,    \* per session, where its ingest_all stands
    loader,     \* a load_faiss_index call running beside the rebuilds
    run,        \* one run of a caller: the CLI's main, or a session of the chat UI
    serving,    \* the stores the processes serve requests from: the UI's cache, the CLI's db
    call        \* the last call of a helper function: its arguments and what it returned

searchVars == <<db, out>>
indexVars == <<dataVer, disk, builder, loader>>
helperVars == <<serving, call>>
vars == <<db, out, dataVer, disk, builder, loader, run, serving, call>>

-----------------------------------------------------------------------------
(* Bounds of the model.                                                    *)

\* the largest top_k a caller asks for
MaxK == 2
\* the largest number of chunks of a small source file
MaxChunks == 1
\* the sessions (script threads, processes) that can rebuild the index
NumSessions == 2
\* the number of uploads into the data directory
MaxUploads == 2
\* the number of questions asked in one run of a caller
MaxTurns == 1
\* the number of token deltas of one streamed answer
MaxDeltas == 2
\* the number of files of each extension in a source directory
FilesPerExt == 1
\* the longest conversation history handed to the context assembler
MaxHistory == 7
\* the number of segments (tags, blocks, runs of text) of a fetched page
MaxSegments == 3
\* the number of lines of a model response
MaxLines == 4
\* the worker threads of load_documents' pool
PoolThreads == 2
\* the directory entries that can hold a file while the pool is followed
MaxPoolFiles == 4
\* the entries of a store whose statistics are taken
MaxEntries == 3

-----------------------------------------------------------------------------
(* Paths.  A path is <<directory, file name>>; str(DATA_DIR / name) is the *)
(* whole pair and Path(p).name its second component.                       *)

DATA_DIR == "data"
PathOf(name) == <<DATA_DIR, name>>
PathName(path) == path[2]

\* the files of the data directory, in the order load_documents lists them
FileNames == <<"A.txt", "B.txt">>
\* filter_path=None
NoFilter == <<>>
Filters == {NoFilter} \cup {PathOf(FileNames[i]) : i \in 1..Len(FileNames)}

-----------------------------------------------------------------------------
(* The embedding collaborator, reduced to one dimension.  Chunks of A.txt  *)
(* lie at 1,0,1,0,... and chunks of B.txt at 3,2,3,2,...; the query texts  *)
(* are one about A.txt, embedded at 0, and one about B.txt, embedded at 3. *)

Queries == {"about A", "about B"}
EmbedQuery(q) == IF q = "about A" THEN 0 ELSE 3
EmbedChunk(name, ord) == IF name = "A.txt" THEN ord % 2 ELSE 2 + (ord % 2)

\* The candidate window of the vector store's filtered search.  Neither
\* retrieve_with_scores nor semantic_search passes fetch_k, so the store's
\* default applies: the value core.py itself names for get_retriever.
FetchK == 20

\* the chunk counts <<of A.txt, of B.txt>> of the stores considered: every
\* non-empty store of small files, and one whose first file has more chunks
\* than the candidate window holds
StoreShapes ==
    {c \in (0..MaxChunks) \X (0..MaxChunks) : c[1] + c[2] >= 1}
        \cup {<<FetchK + 1, 1>>}

Min(a, b) == IF a < b THEN a ELSE b
MinOf(S) == CHOOSE x \in S : \A y \in S : x <= y

\* an optional value: <<>> (missing key / None) or <<v>>
None == <<>>
Some(v) == <<v>>

-----------------------------------------------------------------------------
(* The store.  FAISS.from_documents keeps one entry per chunk, in chunk    *)
(* order; an entry is the chunk's Document (page_content, metadata) and    *)
(* its embedding.  TextLoader documents carry no "page" key.               *)

Entry(name, ord) ==
    [ content |-> <<name, ord>>,
      source  |-> PathOf(name),
      page    |-> None,
      score   |-> None,
      vec     |-> EmbedChunk(name, ord) ]

EntriesOf(name, n) == [i \in 1..n |-> Entry(name, i)]

\* FAISS.from_documents(chunks, embeddings) for nA chunks of A.txt and nB of B.txt
BuildStore(nA, nB) == EntriesOf(FileNames[1], nA) \o EntriesOf(FileNames[2], nB)

\* the value of vector_db: load_faiss_index's None, or a loaded store
AbsentDb == [present |-> FALSE, entries |-> <<>>]
PresentDb(entries) == [present |-> TRUE, entries |-> entries]

-----------------------------------------------------------------------------
(* db.similarity_search_with_relevance_scores(query, k=top_k, **kwargs)    *)

\* squared L2 distance of the flat index
Dist(v, q) == (v - q) * (v - q)

\* the store's euclidean relevance score 1 - d/sqrt(2), in units of 10^-5,
\* for distances counted in tenths
RelevanceScore(d) == 100000 - 7071 * d

Indices(entries) == [i \in 1..Len(entries) |-> i]

RECURSIVE RankFrom(_, _, _)
RankFrom(entries, q, ds) ==
    IF ds = {} THEN <<>>
    ELSE LET d == MinOf(ds)
         IN  SelectSeq(Indices(entries), LAMBDA i : Dist(entries[i].vec, q) = d)
                 \o RankFrom(entries, q, ds \ {d})

\* Ranked without the ordering by distance: the entries in index order
RankedUnsorted(entries, q) == Indices(entries)

\* the entries by increasing distance to the query; equal distances keep
\* the order of the index
Ranked(entries, q) ==
    RankFrom(entries, EmbedQuery(q),
             {Dist(entries[i].vec, EmbedQuery(q)) : i \in 1..Len(entries)})

Prefix(s, n) == SubSeq(s, 1, Min(n, Len(s)))

\* index.search(vector, k if filter is None else fetch_k): the nearest
\* entries the flat index hands back (it has no more than it holds)
Candidates(entries, q, k, filter) ==
    Prefix(Ranked(entries, q), IF filter = NoFilter THEN k ELSE FetchK)

\* Filtered with the filter argument dropped
FilteredNot(entries, cand, filter) == cand

\* the metadata filter {"source": str(filter_path)}, applied to the candidates
Filtered(entries, cand, filter) ==
    IF filter = NoFilter THEN cand
    ELSE SelectSeq(cand, LAMBDA i : entries[i].source = filter)

\* docs[:k], each paired with its relevance score: a sequence of
\* <<index of the stored Document, score>>
SimilaritySearch(entries, q, k, filter) ==
    LET kept == Prefix(Filtered(entries, Candidates(entries, q, k, filter), filter), k)
    IN  [j \in 1..Len(kept) |->
            <<kept[j], RelevanceScore(Dist(entries[kept[j]].vec, EmbedQuery(q)))>>]

-----------------------------------------------------------------------------
(* The retrieval entry points.                                             *)

\* round(score, 4), half-to-even, on a score counted in units of 10^-5
Round4(s) ==
    LET r == s % 10
        base == s - r
    IN  IF r < 5 THEN base
        ELSE IF r > 5 THEN base + 10
        ELSE IF (base \div 10) % 2 = 0 THEN base ELSE base + 10

\* The result of a call.  docs: the Documents it returned, as the indices
\* of the store's own Document objects (the store hands them out uncopied);
\* rows: the dictionaries semantic_search built; cond: the empty condition
\* the call ran into ("none" when it found something).
NoCall ==
    [fn |-> "none", query |-> "", k |-> 0, filter |-> NoFilter,
     cond |-> "none", docs |-> <<>>, rows |-> <<>>]

Call(fn, q, k, filter, cond, docs, rows) ==
    [fn |-> fn, query |-> q, k |-> k, filter |-> filter,
     cond |-> cond, docs |-> docs, rows |-> rows]

DocsOf(results) == [j \in 1..Len(results) |-> results[j][1]]

\* doc.metadata["score"] = score, for every returned (doc, score)
WithScores(entries, results) ==
    [i \in 1..Len(entries) |->
        IF \E j \in 1..Len(results) : results[j][1] = i
        THEN [entries[i] EXCEPT
                 !.score = Some((CHOOSE r \in {results[j] : j \in 1..Len(results)} :
                                    r[1] = i)[2])]
        ELSE entries[i]]

EmptyConds == {"absent", "failed", "nomatch"}

\* retrieve_with_scores(db, query, top_k, filter_path), called on a loaded
\* store (a search that raises gives the caller nothing and changes nothing)
RetrieveWithScores(q, k, filter) ==
    /\ db.present
    /\ UNCHANGED <<indexVars, run, helperVars>>
    /\ LET results == SimilaritySearch(db.entries, q, k, filter)
       IN  /\ db' = [db EXCEPT !.entries = WithScores(db.entries, results)]
           /\ out' = Call("retrieve_with_scores", q, k, filter,
                          IF results = <<>> THEN "nomatch" ELSE "none",
                          DocsOf(results), <<>>)

\* the dictionary semantic_search builds for one (doc, score)
Row(doc, score) ==
    [ content |-> doc.content,
      source  |-> PathName(doc.source),
      page    |-> IF doc.page = None THEN "?" ELSE doc.page[1],
      score   |-> Round4(score) ]

\* what semantic_search returns; fails: the search (the embedding of the
\* query, the index lookup) raises
SearchRows(store, q, k, filter, fails) ==
    IF ~store.present THEN <<>>
    ELSE IF fails THEN <<>>
    ELSE LET results == SimilaritySearch(store.entries, q, k, filter)
         IN  [j \in 1..Len(results) |->
                 Row(store.entries[results[j][1]], results[j][2])]

\* the empty condition a semantic_search call ran into, if any
EmptyCond(store, fails, rows) ==
    IF ~store.present THEN "absent"
    ELSE IF fails THEN "failed"
    ELSE IF rows = <<>> THEN "nomatch"
    ELSE "none"

\* semantic_search(db, query, top_k, filter_path)
SemanticSearch(q, k, filter, fails) ==
    LET rows == SearchRows(db, q, k, filter, fails)
    IN  /\ out' = Call("semantic_search", q, k, filter,
                       EmptyCond(db, fails, rows), <<>>, rows)
        /\ UNCHANGED <<db, indexVars, run, helperVars>>

\* get_retriever(db, top_k, filter_path=...).invoke(query), search_type
\* "similarity": the documents of the same search, without their scores
RetrieverInvoke(q, k, filter) ==
    /\ db.present
    /\ LET results == SimilaritySearch(db.entries, q, k, filter)
       IN  out' = Call("retriever", q, k, filter,
                       IF results = <<>> THEN "nomatch" ELSE "none",
                       DocsOf(results), <<>>)
    /\ UNCHANGED <<db, indexVars, run, helperVars>>

-----------------------------------------------------------------------------
(* The state of a caller's run.                                            *)

\* the contents of the token deltas a chat model streams, each a sequence
\* of characters
Deltas == {<<"x">>}

UserMsg(text) == [role |-> "user", content |-> <<text>>, tokens |-> 0]
AssistantMsg(full, tokens) == [role |-> "assistant", content |-> full, tokens |-> tokens]

NoEvent == [kind |-> "none", text |-> ""]
Event(kind, text) == [kind |-> kind, text |-> text]

\* app: which caller; pc: where its code stands; history, followups: the
\* conversation state (the list of cli.py, st.session_state of app.py);
\* ev, focus: the widget that triggered the script run and the Focus Mode
\* selection; pending, chat_history, full, tokens: the locals of the answer
\* generation; loaded: the store has been loaded (and cached); rendered: the
\* chat widgets are on the page; stream: the deltas the open stream has
\* yielded so far; calls: the core operations invoked since
\* the load of this run; told: the "no index" message was shown in this
\* run; failed: a stream error ended the turn, with the deltas received
\* before it; reported: the error was shown.
RunOf(app, pc) ==
    [app |-> app, pc |-> pc, history |-> <<>>, followups |-> <<>>,
     ev |-> NoEvent, focus |-> NoFilter,
     pending |-> None, chat_history |-> <<>>, full |-> <<>>, tokens |-> 0,
     stream |-> <<>>,
     loaded |-> FALSE, rendered |-> FALSE, calls |-> {}, told |-> FALSE,
     failed |-> None, reported |-> FALSE]

NoRun == RunOf("none", "off")

-----------------------------------------------------------------------------
(* The persisted snapshot: VECTOR_DIR/index.faiss and VECTOR_DIR/index.pkl. *)
(* A file is missing (None) or holds the bytes some rebuild wrote: ver is   *)
(* the data-directory content the rebuild indexed, whole whether the write  *)
(* has finished.                                                            *)

File(ver, whole) == Some([ver |-> ver, whole |-> whole])

NoSnapshot == [faiss |-> None, pkl |-> None]
Snapshot(ver) == [faiss |-> File(ver, TRUE), pkl |-> File(ver, TRUE)]

Readable(file) == file # None /\ file[1].whole

Sessions == 1..NumSessions

\* the store FAISS.from_documents builds from the data directory after ver
\* uploads: the first upload brought A.txt, every later one a chunk of B.txt
StoreOf(ver) == BuildStore(1, ver - 1)

\* ---- ingest_all, step by step ----

\* a session starts a rebuild: the "Ingest & Index" button first writes the
\* uploaded files into the data directory; the ingestion entry point and
\* "Fetch & Index" start ingest_all on the directory as it is
StartIngest(s, upload) ==
    /\ builder[s].pc = "idle"
    /\ IF upload
       THEN dataVer < MaxUploads /\ dataVer' = dataVer + 1
       ELSE UNCHANGED dataVer
    /\ builder' = [builder EXCEPT ![s] = [pc |-> "start", ver |-> 0]]
    /\ UNCHANGED <<disk, loader, searchVars, run, helperVars>>

\* docs = load_documents(DATA_DIR); without documents ingest_all only warns
LoadDocuments(s) ==
    /\ builder[s].pc = "start"
    /\ builder' = [builder EXCEPT ![s] =
                      IF dataVer = 0 THEN [pc |-> "idle", ver |-> 0]
                      ELSE [pc |-> "loaded", ver |-> dataVer]]
    /\ UNCHANGED <<dataVer, disk, loader, searchVars, run, helperVars>>

\* split_documents, get_embeddings, FAISS.from_documents: the new store, in memory
EmbedChunks(s) ==
    /\ builder[s].pc = "loaded"
    /\ builder' = [builder EXCEPT ![s].pc = "built"]
    /\ UNCHANGED <<dataVer, disk, loader, searchVars, run, helperVars>>

\* db.save_local(save_path) writes index.faiss in place ...
OpenFaiss(s) ==
    /\ builder[s].pc = "built"
    /\ disk' = [disk EXCEPT !.faiss = File(builder[s].ver, FALSE)]
    /\ builder' = [builder EXCEPT ![s].pc = "faiss"]
    /\ UNCHANGED <<dataVer, loader, searchVars, run, helperVars>>

CloseFaiss(s) ==
    /\ builder[s].pc = "faiss"
    /\ disk' = [disk EXCEPT !.faiss = File(builder[s].ver, TRUE)]
    /\ builder' = [builder EXCEPT ![s].pc = "faissDone"]
    /\ UNCHANGED <<dataVer, loader, searchVars, run, helperVars>>

\* ... and then index.pkl, in place too
OpenPkl(s) ==
    /\ builder[s].pc = "faissDone"
    /\ disk' = [disk EXCEPT !.pkl = File(builder[s].ver, FALSE)]
    /\ builder' = [builder EXCEPT ![s].pc = "pkl"]
    /\ UNCHANGED <<dataVer, loader, searchVars, run, helperVars>>

ClosePkl(s) ==
    /\ builder[s].pc = "pkl"
    /\ disk' = [disk EXCEPT !.pkl = File(builder[s].ver, TRUE)]
    /\ builder' = [builder EXCEPT ![s].pc = "saved"]
    /\ UNCHANGED <<dataVer, loader, searchVars, run, helperVars>>

\* create_vector_index and ingest_all return
FinishIngest(s) ==
    /\ builder[s].pc = "saved"
    /\ builder' = [builder EXCEPT ![s] = [pc |-> "idle", ver |-> 0]]
    /\ UNCHANGED <<dataVer, disk, loader, searchVars, run, helperVars>>

Rebuilding(s) == builder[s].pc # "idle"

\* ---- load_faiss_index, step by step ----

\* what a load returns: None, or the store read from the two files
LoadedNone == [store |-> FALSE, faiss |-> 0, pkl |-> 0]
LoadedStore(f, p) == [store |-> TRUE, faiss |-> f, pkl |-> p]

IdleLoader == [pc |-> "idle", exists |-> FALSE, faiss |-> 0, result |-> LoadedNone]

\* a call starts: index_file.exists()
CheckExists ==
    /\ loader.pc = "idle"
    /\ loader' = IF disk.faiss = None
                 THEN [IdleLoader EXCEPT !.pc = "done"]
                 ELSE [IdleLoader EXCEPT !.pc = "exists", !.exists = TRUE]
    /\ UNCHANGED <<dataVer, disk, builder, searchVars, run, helperVars>>

\* FAISS.load_local reads index.faiss; a truncated file raises, and the
\* except clause returns None
ReadFaiss ==
    /\ loader.pc = "exists"
    /\ loader' = IF Readable(disk.faiss)
                 THEN [loader EXCEPT !.pc = "faissRead", !.faiss = disk.faiss[1].ver]
                 ELSE [loader EXCEPT !.pc = "done"]
    /\ UNCHANGED <<dataVer, disk, builder, searchVars, run, helperVars>>

\* ... then index.pkl; a missing or truncated file raises likewise
ReadPkl ==
    /\ loader.pc = "faissRead"
    /\ loader' = IF Readable(disk.pkl)
                 THEN [loader EXCEPT !.pc = "done",
                                     !.result = LoadedStore(loader.faiss, disk.pkl[1].ver)]
                 ELSE [loader EXCEPT !.pc = "done"]
    /\ UNCHANGED <<dataVer, disk, builder, searchVars, run, helperVars>>

\* the caller has the result; the next call can start
ReturnLoad ==
    /\ loader.pc = "done"
    /\ loader' = IdleLoader
    /\ UNCHANGED <<dataVer, disk, builder, searchVars, run, helperVars>>

\* ---- the stores the processes serve from ----

\* the CLI process, beside the sessions of the UI process
Cli == 0
Readers == Sessions \cup {Cli}

\* a request holds the store it acquired; since is the data-directory content
\* of the last rebuild that had completed, cache cleared, when it started
IdleReader == [pc |-> "idle", store |-> [present |-> FALSE, entries |-> <<>>], since |-> 0]

\* nothing loaded yet: st.cache_resource is empty, cli.py has not started
NoServing ==
    [cache |-> None, cli |-> None, swapped |-> 0, req |-> [r \in Readers |-> IdleReader]]

\* no helper function has been called
NoHelperCall == [fn |-> "none"]

IndexIdle ==
    /\ builder = [s \in Sessions |-> [pc |-> "idle", ver |-> 0]]
    /\ loader = IdleLoader

\* the directory before the sessions start: never ingested, or holding the
\* snapshot of an earlier ingest of the first upload
IndexInit ==
    /\ \/ dataVer = 0 /\ disk = NoSnapshot
       \/ dataVer = 1 /\ disk \in {NoSnapshot, Snapshot(1)}
    /\ IndexIdle
    /\ db = AbsentDb
    /\ out = NoCall
    /\ run = NoRun
    /\ serving = NoServing
    /\ call = NoHelperCall

IndexNext ==
    \/ \E s \in Sessions :
           \/ \E upload \in BOOLEAN : StartIngest(s, upload)
           \/ LoadDocuments(s)
           \/ EmbedChunks(s)
           \/ OpenFaiss(s)
           \/ CloseFaiss(s)
           \/ OpenPkl(s)
           \/ ClosePkl(s)
           \/ FinishIngest(s)
    \/ CheckExists
    \/ ReadFaiss
    \/ ReadPkl
    \/ ReturnLoad

SpecIndex == IndexInit /\ [][IndexNext]_vars

-----------------------------------------------------------------------------
(* The callers: main of cli.py and the script of app.py.                   *)

\* TOP_K, the configured number of chunks per query
TOP_K == 5
\* the CLI keeps the last 20 messages of its history
HistoryKeep == 20
\* the default of the Search tab's "Results" slider
SearchK == 10
\* top_k of the Summaries tab's search
SummaryK == 8
\* the query of the Summaries tab's search
SummaryQuery == "summary overview main content"

\* load_faiss_index(embeddings) on a directory no rebuild is writing
LoadFaissIndex(d) ==
    IF d.faiss = None THEN AbsentDb
    ELSE IF Readable(d.faiss) /\ Readable(d.pkl) THEN PresentDb(StoreOf(d.pkl[1].ver))
    ELSE AbsentDb

Last(seq) == seq[Len(seq)]
Front(seq) == SubSeq(seq, 1, Len(seq) - 1)
Suffix(seq, n) == SubSeq(seq, Len(seq) - Min(n, Len(seq)) + 1, Len(seq))

UserTurns(history) == Cardinality({i \in 1..Len(history) : history[i].role = "user"})

\* the locals of a turn go out of scope
TurnOver(r, pc) ==
    [r EXCEPT !.pc = pc, !.ev = NoEvent, !.pending = None, !.chat_history = <<>>,
              !.full = <<>>, !.tokens = 0, !.stream = <<>>]

\* ---- cli.py ----

\* db = load_faiss_index(embeddings); without an index main prints the error and returns
CliLoad ==
    /\ run.app = "cli" /\ run.pc = "boot"
    /\ db' = LoadFaissIndex(disk)
    /\ run' = IF db'.present
              THEN [run EXCEPT !.pc = "llm", !.loaded = TRUE]
              ELSE [run EXCEPT !.pc = "exit", !.loaded = TRUE, !.told = TRUE]
    /\ UNCHANGED <<out, indexVars, helperVars>>

\* retriever = get_retriever(db, top_k=TOP_K); llm = get_llm(...), which may raise
CliGetLlm(ok) ==
    /\ run.app = "cli" /\ run.pc = "llm"
    /\ run' = IF ok THEN [run EXCEPT !.pc = "prompt"]
              ELSE [run EXCEPT !.pc = "exit", !.reported = TRUE]
    /\ UNCHANGED <<searchVars, indexVars, helperVars>>

\* a question is typed: get_rag_stream retrieves, builds the messages from
\* the history and opens the stream
CliAsk(q) ==
    /\ run.app = "cli" /\ run.pc = "prompt"
    /\ out' = Call("retriever", q, TOP_K, NoFilter, "none",
                   DocsOf(SimilaritySearch(db.entries, q, TOP_K, NoFilter)), <<>>)
    /\ run' = [run EXCEPT !.pc = "stream", !.pending = Some(q),
                          !.chat_history = run.history, !.full = <<>>,
                          !.calls = run.calls \cup {"retrieve", "generate"},
                          !.failed = None, !.reported = FALSE]
    /\ UNCHANGED <<db, indexVars, helperVars>>

\* "exit" or "quit" is typed
CliQuit ==
    /\ run.app = "cli" /\ run.pc = "prompt"
    /\ run' = [run EXCEPT !.pc = "exit"]
    /\ UNCHANGED <<searchVars, indexVars, helperVars>>

\* ---- the stream loop of both callers ----

\* AddDelta with its operands exchanged
AddDeltaFront(full_response, content) == content \o full_response

\* full_response += content
AddDelta(full_response, content) == full_response \o content

\* token_count += 1
CountDelta(token_count) == token_count + 1

\* for chunk in stream: the next delta arrives; full_response += content
\* (and token_count += 1 in the UI; cli.py has no counter)
StreamDelta(d) ==
    /\ run.pc = "stream"
    /\ Len(run.stream) < MaxDeltas
    /\ run' = [run EXCEPT !.stream = Append(run.stream, d),
                          !.full = AddDelta(run.full, d),
                          !.tokens = IF run.app = "ui" THEN CountDelta(run.tokens)
                                     ELSE 0]
    /\ UNCHANGED <<searchVars, indexVars, helperVars>>

\* the stream raises.  cli.py: the except clause of the loop prints the error
\* and the loop goes on to the next question.  app.py: nothing catches it,
\* the script run ends and the exception is displayed.
StreamError ==
    /\ run.pc = "stream"
    /\ run' = TurnOver([run EXCEPT !.failed = Some(run.full), !.reported = TRUE],
                        IF run.app = "cli" THEN "prompt" ELSE "idle")
    /\ UNCHANGED <<searchVars, indexVars, helperVars>>

\* the stream is exhausted: the turn is recorded
StreamEnd ==
    /\ run.pc = "stream"
    /\ run' = IF run.app = "cli"
              THEN TurnOver([run EXCEPT
                                !.history = Suffix(run.history
                                                       \o <<UserMsg(run.pending[1]),
                                                            AssistantMsg(run.full, 0)>>,
                                                   HistoryKeep)],
                            "prompt")
              ELSE [run EXCEPT
                       !.pc = "followups",
                       !.history = Append(run.history, AssistantMsg(run.full, run.tokens))]
    /\ UNCHANGED <<searchVars, indexVars, helperVars>>

\* what a function gives back: it returns a value or raises
Returns(v) == [raised |-> FALSE, value |-> v]
Raises(kind) == [raised |-> TRUE, value |-> kind]

\* ---- generate_followups of core.py ----

\* questions[:3]
MaxFollowups == 3

\* the lines a model response is made of (what lies between its "\n"),
\* each a sequence of characters
ResponseLines ==
    {<<>>, <<" ">>, <<"x">>, <<" ", "x">>, <<"x", " ">>, <<"x", " ", "y">>,
     <<" ", "y", " ">>}

Responses == UNION {[1..n -> ResponseLines] : n \in 0..MaxLines}

\* str.lstrip() and str.rstrip() of a line
RECURSIVE LStrip(_)
LStrip(line) ==
    IF line # <<>> /\ Head(line) = " " THEN LStrip(Tail(line)) ELSE line

RECURSIVE RStrip(_)
RStrip(line) ==
    IF line # <<>> /\ Last(line) = " " THEN RStrip(Front(line)) ELSE line

\* q.strip()
StripLine(line) == RStrip(LStrip(line))

\* content.strip(), on the lines of the content: the blank lines at both
\* ends go, the first line left loses its leading whitespace and the last
\* its trailing whitespace
RECURSIVE DropBlankHead(_)
DropBlankHead(lines) ==
    IF lines # <<>> /\ StripLine(Head(lines)) = <<>> THEN DropBlankHead(Tail(lines))
    ELSE lines

RECURSIVE DropBlankLast(_)
DropBlankLast(lines) ==
    IF lines # <<>> /\ StripLine(Last(lines)) = <<>> THEN DropBlankLast(Front(lines))
    ELSE lines

StripContent(lines) ==
    LET kept == DropBlankLast(DropBlankHead(lines))
    IN  [j \in 1..Len(kept) |->
            LET l == IF j = 1 THEN LStrip(kept[j]) ELSE kept[j]
            IN  IF j = Len(kept) THEN RStrip(l) ELSE l]

\* FirstThree without the cut
FirstAll(questions) == questions

\* questions[:3]
FirstThree(questions) == Prefix(questions, MaxFollowups)

\* [q.strip() for q in content.strip().split("\n") if q.strip()][:3]
ParseFollowups(lines) ==
    LET kept == SelectSeq(StripContent(lines), LAMBDA q : StripLine(q) # <<>>)
    IN  FirstThree([j \in 1..Len(kept) |-> StripLine(kept[j])])

\* a result whose content is no string (None, or a list of content blocks):
\* it has no strip method, and content.strip() raises AttributeError
NotAString == << <<"None">> >>

\* the try block: llm.invoke(prompt), then the parsing of its content
TryFollowups(answer) ==
    IF answer.raised THEN Raises("model")
    ELSE IF answer.value = NotAString THEN Raises("AttributeError")
    ELSE Returns(ParseFollowups(answer.value))

\* GenerateFollowups without its except clause
GenerateFollowupsUncaught(answer) == TryFollowups(answer)

\* generate_followups(query, response, llm): one llm.invoke, whose answer is
\* parsed; whatever the try block raises, the except clause returns []
GenerateFollowups(answer) ==
    IF TryFollowups(answer).raised THEN Returns(<<>>) ELSE TryFollowups(answer)

\* ---- app.py ----

\* the widgets whose event adds a user message
Asking == {"chat_input", "quick_prompt", "followup"}

\* the user acts on the page and the script runs again from the top
UiRerun(ev, focus) ==
    /\ run.app = "ui" /\ run.pc = "idle"
    /\ ev.kind # "none" => run.rendered
    /\ ev.kind = "followup" => \E i \in 1..Len(run.followups) : run.followups[i] = <<ev.text>>
    /\ run' = [run EXCEPT !.pc = "init", !.ev = ev, !.focus = focus, !.pending = None,
                          !.calls = {}, !.told = FALSE, !.failed = None,
                          !.reported = FALSE]
    /\ UNCHANGED <<searchVars, indexVars, helperVars>>

\* the resources: vector_db = _cached_vector_db(embeddings) loads the index on
\* the first run and is served from the cache afterwards; a failure of
\* _cached_llm is shown and stops the script
UiInit(llmOk) ==
    /\ run.app = "ui" /\ run.pc = "init"
    /\ db' = IF run.loaded THEN db ELSE LoadFaissIndex(disk)
    /\ run' = IF llmOk
              THEN [run EXCEPT !.pc = "guard", !.loaded = TRUE]
              ELSE TurnOver([run EXCEPT !.loaded = TRUE, !.reported = TRUE,
                                        !.rendered = FALSE], "idle")
    /\ UNCHANGED <<out, indexVars, helperVars>>

\* ChatGuardStops without its test
ChatGuardNever(store) == FALSE

\* if vector_db is None: st.warning(...); st.stop()
ChatGuardStops(store) == ~store.present

UiGuard ==
    /\ run.app = "ui" /\ run.pc = "guard"
    /\ run' = IF ChatGuardStops(db)
              THEN TurnOver([run EXCEPT !.told = TRUE, !.rendered = FALSE], "idle")
              ELSE [run EXCEPT !.pc = "chat"]
    /\ UNCHANGED <<searchVars, indexVars, helperVars>>

\* st.rerun(): the script starts over with no widget event
Restarted(r) == [TurnOver(r, "init") EXCEPT !.calls = {}]

\* PendingFromHistory without the look at the history
PendingFromHistoryNever(history) == None

\* pending_prompt as the history gives it: the content of a last message
\* that is an unanswered user message
PendingFromHistory(history) ==
    IF history # <<>> /\ Last(history).role = "user"
    THEN Some(Last(history).content[1]) ELSE None

\* the chat tab up to the chat input: quick prompts, follow-up buttons,
\* regenerate, and the choice of the pending prompt
UiChat ==
    /\ run.app = "ui" /\ run.pc = "chat"
    /\ run' =
        IF run.ev.kind = "quick_prompt" /\ run.history = <<>>
        THEN Restarted([run EXCEPT !.history = Append(run.history, UserMsg(run.ev.text))])
        ELSE IF run.ev.kind = "followup" /\ run.followups # <<>>
        THEN Restarted([run EXCEPT !.history = Append(run.history, UserMsg(run.ev.text)),
                                   !.followups = <<>>])
        ELSE IF run.ev.kind = "regenerate" /\ Len(run.history) >= 2
                /\ Last(run.history).role = "assistant"
        THEN Restarted([run EXCEPT !.history = Front(run.history), !.followups = <<>>])
        ELSE LET unanswered == PendingFromHistory(run.history)
                 typed == run.ev.kind = "chat_input"
                 pending == IF typed THEN Some(run.ev.text) ELSE unanswered
             IN  [run EXCEPT
                     !.history = IF typed THEN Append(run.history, UserMsg(run.ev.text))
                                 ELSE run.history,
                     !.pending = pending,
                     !.rendered = TRUE,
                     !.pc = IF pending # None THEN "generate" ELSE "search"]
    /\ UNCHANGED <<searchVars, indexVars, helperVars>>

\* HistoryBeforePending without the cut
HistoryWhole(history) == history

\* st.session_state.history[:-1]
HistoryBeforePending(history) == Front(history)

\* top_k is the value of the "Search Depth" slider.
\* get_rag_stream_with_scores(pending_prompt, vector_db, llm, top_k, focus_path,
\* chat_history=history[:-1], ...): retrieve_with_scores, _build_messages, llm.stream
UiGenerate(top_k) ==
    /\ run.app = "ui" /\ run.pc = "generate"
    /\ LET results == SimilaritySearch(db.entries, run.pending[1], top_k, run.focus)
       IN  /\ db' = [db EXCEPT !.entries = WithScores(db.entries, results)]
           /\ out' = Call("retrieve_with_scores", run.pending[1], top_k, run.focus,
                          IF results = <<>> THEN "nomatch" ELSE "none",
                          DocsOf(results), <<>>)
    /\ run' = [run EXCEPT !.pc = "stream",
                          !.chat_history = HistoryBeforePending(run.history),
                          !.full = <<>>, !.tokens = 0,
                          !.calls = run.calls \cup {"retrieve", "generate"}]
    /\ UNCHANGED <<indexVars, helperVars>>

\* st.session_state.followups = generate_followups(pending_prompt, full_response, llm)
\* answer is what llm.invoke gives; an exception nothing catches ends the
\* script run and is displayed
UiFollowups(answer) ==
    /\ run.app = "ui" /\ run.pc = "followups"
    /\ LET result == GenerateFollowups(answer)
       IN  run' = IF result.raised
                  THEN TurnOver([run EXCEPT !.reported = TRUE,
                                            !.calls = run.calls \cup {"generate"}],
                                "idle")
                  ELSE [run EXCEPT !.pc = "search", !.followups = result.value,
                                   !.calls = run.calls \cup {"generate"}]
    /\ UNCHANGED <<searchVars, indexVars, helperVars>>

\* the Search tab: with a query in its text box, semantic_search runs
UiSearchTab(typed) ==
    /\ run.app = "ui" /\ run.pc = "search"
    /\ IF db.present /\ typed # None
       THEN LET rows == SearchRows(db, typed[1], SearchK, run.focus, FALSE)
            IN  /\ out' = Call("semantic_search", typed[1], SearchK, run.focus,
                               EmptyCond(db, FALSE, rows), <<>>, rows)
                /\ run' = [run EXCEPT !.pc = "summary",
                                      !.calls = run.calls \cup {"retrieve"}]
       ELSE /\ run' = [run EXCEPT !.pc = "summary", !.told = run.told \/ ~db.present]
            /\ UNCHANGED out
    /\ UNCHANGED <<db, indexVars, helperVars>>

\* the Summaries tab: "Generate Summary" of a file searches its chunks and,
\* when there are any, asks the model and reruns the script
UiSummaryTab(clicked) ==
    /\ run.app = "ui" /\ run.pc = "summary"
    /\ IF db.present /\ clicked # None
       THEN LET rows == SearchRows(db, SummaryQuery, SummaryK, PathOf(clicked[1]), FALSE)
            IN  /\ out' = Call("semantic_search", SummaryQuery, SummaryK, PathOf(clicked[1]),
                               EmptyCond(db, FALSE, rows), <<>>, rows)
                /\ run' = IF rows # <<>>
                          THEN Restarted(run)
                          ELSE TurnOver([run EXCEPT
                                            !.calls = run.calls \cup {"retrieve"}],
                                        "idle")
       ELSE /\ run' = TurnOver([run EXCEPT !.told = run.told \/ ~db.present], "idle")
            /\ UNCHANGED out
    /\ UNCHANGED <<db, indexVars, helperVars>>

\* _reset_chat_state(), for the state the model keeps
ResetChatState(r) == [r EXCEPT !.history = <<>>, !.followups = <<>>]

\* the "New" and "Clear" buttons of the top bar, which the script draws
\* before anything else: the run of the click resets the chat state ("New"
\* after saving the session) and st.rerun() starts the script over
UiTopBar(button) ==
    /\ run.app = "ui" /\ run.pc = "idle" /\ run.loaded
    /\ button \in {"tb_new", "tb_clear"}
    /\ run' = Restarted(ResetChatState([run EXCEPT !.told = FALSE, !.failed = None,
                                                   !.reported = FALSE]))
    /\ UNCHANGED <<searchVars, indexVars, helperVars>>

Events ==
    {NoEvent, Event("regenerate", "")}
        \cup {Event(kind, q) : kind \in Asking, q \in Queries}

\* what the model answers when asked for follow-ups: it raises, or its
\* content is no string, or is empty, or is one question on a line
FollowupAnswers ==
    {Raises("model"), Returns(NotAString), Returns(<<>>)}
        \cup {Returns(<< <<q>> >>) : q \in Queries}

\* a caller starts on a directory without snapshot or with the snapshot of
\* an earlier ingest
RunInit ==
    /\ \E v \in {0, MaxUploads} :
           /\ dataVer = v
           /\ disk = IF v = 0 THEN NoSnapshot ELSE Snapshot(v)
    /\ IndexIdle
    /\ db = AbsentDb
    /\ out = NoCall
    /\ run \in {RunOf("cli", "boot"), RunOf("ui", "idle")}
    /\ serving = NoServing
    /\ call = NoHelperCall

\* a run asks at most MaxTurns questions
RunNext ==
    \/ CliLoad
    \/ \E ok \in BOOLEAN : CliGetLlm(ok)
    \/ /\ UserTurns(run.history) < MaxTurns
       /\ \E q \in Queries : CliAsk(q)
    \/ CliQuit
    \/ \E d \in Deltas : StreamDelta(d)
    \/ StreamError
    \/ StreamEnd
    \/ \E ev \in Events, focus \in Filters :
           /\ ev.kind \in Asking => UserTurns(run.history) < MaxTurns
           /\ UiRerun(ev, focus)
    \/ \E ok \in BOOLEAN : UiInit(ok)
    \/ UiGuard
    \/ UiChat
    \/ \E top_k \in 1..MaxK : UiGenerate(top_k)
    \/ \E answer \in FollowupAnswers : UiFollowups(answer)
    \/ \E typed \in {None} \cup {Some(q) : q \in Queries} : UiSearchTab(typed)
    \/ \E clicked \in {None} \cup {Some(FileNames[i]) : i \in 1..Len(FileNames)} :
           UiSummaryTab(clicked)

SpecRun == RunInit /\ [][RunNext]_vars

-----------------------------------------------------------------------------
(* The answer stream, with deltas of several contents: the callers on a    *)
(* directory that holds a snapshot, asked one question text, with the      *)
(* model at hand and no use of the other tabs.                             *)

\* the contents a delta can carry: nothing, one character, two characters
TokenDeltas == {<<>>, <<"a">>, <<"b", "c">>}

StreamInit ==
    /\ dataVer = 1
    /\ disk = Snapshot(1)
    /\ IndexIdle
    /\ db = AbsentDb
    /\ out = NoCall
    /\ run \in {RunOf("cli", "boot"), RunOf("ui", "idle")}
    /\ serving = NoServing
    /\ call = NoHelperCall

StreamNext ==
    \/ CliLoad
    \/ CliGetLlm(TRUE)
    \/ /\ UserTurns(run.history) < MaxTurns
       /\ CliAsk("about A")
    \/ CliQuit
    \/ \E d \in TokenDeltas : StreamDelta(d)
    \/ StreamError
    \/ StreamEnd
    \/ \E ev \in {NoEvent, Event("chat_input", "about A")} :
           /\ ev.kind \in Asking => UserTurns(run.history) < MaxTurns
           /\ UiRerun(ev, NoFilter)
    \/ UiInit(TRUE)
    \/ UiGuard
    \/ UiChat
    \/ UiGenerate(1)
    \/ UiFollowups(Returns(<<>>))
    \/ UiSearchTab(None)
    \/ UiSummaryTab(None)

SpecStream == StreamInit /\ [][StreamNext]_vars

-----------------------------------------------------------------------------
(* The conversation over several turns: both callers on a directory that   *)
(* holds a snapshot, with the model at hand, every stream running to its   *)
(* end, each question text asked once between two resets, the buttons     *)
(* clicked while the page shows them, and the top bar in use.              *)

\* the history holds a user message of this text
Asked(q) == \E i \in 1..Len(run.history) : run.history[i] = UserMsg(q)

ChatNext ==
    \/ CliLoad
    \/ CliGetLlm(TRUE)
    \/ \E q \in Queries : ~Asked(q) /\ CliAsk(q)
    \/ CliQuit
    \/ \E d \in Deltas : StreamDelta(d)
    \/ StreamEnd
    \/ \E ev \in Events, focus \in Filters :
           /\ ev.kind \in Asking => ~Asked(ev.text)
           /\ ev.kind = "quick_prompt" => run.history = <<>>
           /\ ev.kind = "regenerate" =>
                  Len(run.history) >= 2 /\ Last(run.history).role = "assistant"
           /\ UiRerun(ev, focus)
    \/ \E button \in {"tb_new", "tb_clear"} : UiTopBar(button)
    \/ UiInit(TRUE)
    \/ UiGuard
    \/ UiChat
    \/ \E top_k \in 1..MaxK : UiGenerate(top_k)
    \/ \E answer \in FollowupAnswers : UiFollowups(answer)
    \/ UiSearchTab(None)
    \/ UiSummaryTab(None)

SpecChat == StreamInit /\ [][ChatNext]_vars

-----------------------------------------------------------------------------
(* The store a request is served from: _cached_vector_db of app.py, whose  *)
(* cache the ingest buttons clear, and the db cli.py loads once.  A        *)
(* rebuild is taken as one step here; its steps are those of SpecIndex.    *)
(* The scores a retrieval leaves in the store are those of SpecSearch.     *)

\* an ingest button of the UI: the uploads are written, ingest_all rebuilds
\* the snapshot, st.cache_resource.clear() empties the cache
IngestAndClear(upload) ==
    /\ IF upload
       THEN dataVer < MaxUploads /\ dataVer' = dataVer + 1
       ELSE UNCHANGED dataVer
    /\ disk' = IF dataVer' = 0 THEN disk ELSE Snapshot(dataVer')
    /\ serving' = [serving EXCEPT !.cache = None, !.swapped = dataVer']
    /\ UNCHANGED <<builder, loader, searchVars, run, call>>

\* cli.py starts: db = load_faiss_index(embeddings), once per process
CliMain ==
    /\ serving.cli = None
    /\ serving' = [serving EXCEPT !.cli = Some(LoadFaissIndex(disk))]
    /\ UNCHANGED <<indexVars, searchVars, run, call>>

\* _cached_vector_db(embeddings): the cached store, or a load on a miss
CachedVectorDb == IF serving.cache = None THEN LoadFaissIndex(disk) ELSE serving.cache[1]

\* a request starts and acquires its store: a script run of a UI session
\* takes vector_db from the cache, a question of the CLI uses the db of main
BeginRequest(r) ==
    /\ serving.req[r].pc = "idle"
    /\ IF r = Cli
       THEN /\ serving.cli # None /\ serving.cli[1].present
            /\ serving' = [serving EXCEPT
                              !.req[r] = [pc |-> "acquired", store |-> serving.cli[1],
                                          since |-> serving.swapped]]
       ELSE serving' = [serving EXCEPT
                           !.cache = Some(CachedVectorDb),
                           !.req[r] = [pc |-> "acquired", store |-> CachedVectorDb,
                                       since |-> serving.swapped]]
    /\ UNCHANGED <<indexVars, searchVars, run, call>>

\* the request retrieves from the store it holds and ends; without a store
\* the chat guard of the UI ends the run
Retrieve(r, q) ==
    /\ serving.req[r].pc = "acquired"
    /\ LET store == serving.req[r].store
           results == SimilaritySearch(store.entries, q, TOP_K, NoFilter)
       IN  out' = IF store.present
                  THEN Call(IF r = Cli THEN "retriever" ELSE "retrieve_with_scores",
                            q, TOP_K, NoFilter,
                            IF results = <<>> THEN "nomatch" ELSE "none",
                            DocsOf(results), <<>>)
                  ELSE out
    /\ serving' = [serving EXCEPT !.req[r] = IdleReader]
    /\ UNCHANGED <<db, indexVars, run, call>>

SwapInit ==
    /\ \/ dataVer = 0 /\ disk = NoSnapshot
       \/ dataVer = 1 /\ disk = Snapshot(1)
    /\ IndexIdle
    /\ db = AbsentDb
    /\ out = NoCall
    /\ run = NoRun
    /\ serving = NoServing
    /\ call = NoHelperCall

SwapNext ==
    \/ \E upload \in BOOLEAN : IngestAndClear(upload)
    \/ CliMain
    \/ \E r \in Readers : BeginRequest(r)
    \/ \E r \in Readers : Retrieve(r, "about B")

SpecSwap == SwapInit /\ [][SwapNext]_vars

-----------------------------------------------------------------------------
(* The helper functions, called on their own: load_documents, get_llm,     *)
(* _build_messages, ingest_url, generate_followups.  call holds the        *)
(* arguments of the last call and what it gave back.                       *)

RECURSIVE Flatten(_)
Flatten(seqs) == IF seqs = <<>> THEN <<>> ELSE Head(seqs) \o Flatten(Tail(seqs))

\* ---- load_documents ----

\* _LOADERS: the supported extensions, in the order of the dictionary
LoaderExts == <<".pdf", ".txt", ".md">>

\* the files a source directory can hold, in the order the directory lists
\* them: FilesPerExt of every supported extension and of one that is not;
\* pages is the number of Documents the loader makes of the file
DirFiles ==
    [i \in 1..(4 * FilesPerExt) |->
        LET ext == (<<".pdf", ".txt", ".md", ".csv">>)[((i - 1) % 4) + 1]
        IN  [name |-> <<i, ext>>, suffix |-> ext, pages |-> IF ext = ".pdf" THEN 2 ELSE 1]]

\* a file is not in the directory, or its loader loads it, or raises on it
FileStates == {"absent", "loads", "raises"}

\* the Documents the loader makes of file i
DocsOfFile(i) == [p \in 1..DirFiles[i].pages |-> <<DirFiles[i].name, p>>]

\* _load_single without its except clause
LoadSingleUncaught(dir, i) ==
    IF \A e \in 1..Len(LoaderExts) : LoaderExts[e] # DirFiles[i].suffix
    THEN Returns(<<>>)
    ELSE IF dir.files[i] = "raises" THEN Raises("loader") ELSE Returns(DocsOfFile(i))

\* _load_single(file_path)
LoadSingle(dir, i) ==
    IF \A e \in 1..Len(LoaderExts) : LoaderExts[e] # DirFiles[i].suffix
    THEN Returns(<<>>)
    ELSE IF dir.files[i] = "raises" THEN Returns(<<>>) ELSE Returns(DocsOfFile(i))

\* source_dir.glob("*" + ext): the files of the directory with that extension
Glob(dir, ext) ==
    SelectSeq([i \in 1..Len(DirFiles) |-> i],
              LAMBDA i : dir.files[i] # "absent" /\ DirFiles[i].suffix = ext)

\* load_documents(source_dir): pool.map hands the batches back in the order
\* of the files and raises what a worker raised
LoadDocumentsIn(dir) ==
    IF ~dir.exists THEN Returns(<<>>)
    ELSE LET files == Flatten([e \in 1..Len(LoaderExts) |-> Glob(dir, LoaderExts[e])])
             batches == [j \in 1..Len(files) |-> LoadSingle(dir, files[j])]
         IN  IF files = <<>> THEN Returns(<<>>)
             ELSE IF \E j \in 1..Len(batches) : batches[j].raised THEN Raises("loader")
             ELSE Returns(Flatten([j \in 1..Len(batches) |-> batches[j].value]))

SourceDirs ==
    {[exists |-> TRUE, files |-> f] : f \in [1..Len(DirFiles) -> FileStates]}
        \cup {[exists |-> FALSE, files |-> [i \in 1..Len(DirFiles) |-> "absent"]]}

CallLoadDocuments(dir) ==
    /\ call = NoHelperCall
    /\ call' = [fn |-> "load_documents", dir |-> dir, result |-> LoadDocumentsIn(dir)]
    /\ UNCHANGED <<searchVars, indexVars, run, serving>>

\* ---- split_documents, create_vector_index, ingest_all ----
\* on a snapshot directory no other rebuild is writing

\* CHUNK_SIZE and CHUNK_OVERLAP of config.py
CHUNK_SIZE == 1000
CHUNK_OVERLAP == 200

\* the number of characters of a Document's page_content: the first page
\* of a PDF is long and its second page short, a .txt file fills one chunk
\* exactly, a .md file is empty
PageLength(doc) ==
    LET ext == doc[1][2]
    IN  IF ext = ".pdf" THEN (IF doc[2] = 1 THEN 2 * CHUNK_SIZE - 100 ELSE CHUNK_SIZE \div 2)
        ELSE IF ext = ".txt" THEN CHUNK_SIZE
        ELSE 0

\* a chunk: the Document the splitter makes of length characters of doc
\* from start on; add_start_index=True puts start into its metadata
Chunk(doc, start, length) ==
    [source |-> doc[1], page |-> doc[2], start_index |-> start,
     page_content |-> <<doc, start, length>>]

\* RecursiveCharacterTextSplitter on a text without separators: chunks of
\* chunk_size characters, each starting chunk_size - chunk_overlap after
\* the one before, the last one shorter; an empty text gives no chunk
ChunksOfDoc(doc, chunk_size, chunk_overlap) ==
    LET len == PageLength(doc)
        step == chunk_size - chunk_overlap
        n == IF len = 0 THEN 0
             ELSE IF len <= chunk_size THEN 1
             ELSE 1 + ((len - chunk_size) + step - 1) \div step
    IN  [k \in 1..n |-> Chunk(doc, (k - 1) * step, Min(chunk_size, len - (k - 1) * step))]

\* SplitDocuments without its shortcut for an empty list
SplitDocumentsAlways(docs, chunk_size, chunk_overlap) ==
    Flatten([j \in 1..Len(docs) |-> ChunksOfDoc(docs[j], chunk_size, chunk_overlap)])

\* split_documents(docs, chunk_size, chunk_overlap)
SplitDocuments(docs, chunk_size, chunk_overlap) ==
    IF docs = <<>> THEN <<>>
    ELSE SplitDocumentsAlways(docs, chunk_size, chunk_overlap)

\* the ids FAISS.from_documents gives n chunks: uuid4 values, different in
\* every build; two draws of them
Uuids(n, draw) == [i \in 1..n |-> IF draw = 1 THEN i ELSE n + 1 - i]

\* FAISS.from_documents(chunks, embeddings): the docstore maps an id to
\* each chunk and index_to_docstore_id lists the ids in the order of the
\* vectors; without chunks there is no first embedding to size the index
\* and it raises IndexError
FromDocuments(chunks, draw) ==
    IF chunks = <<>> THEN Raises("IndexError")
    ELSE LET ids == Uuids(Len(chunks), draw)
         IN  Returns([index_to_docstore_id |-> ids,
                      docstore |-> [id \in 1..Len(chunks) |->
                                       chunks[CHOOSE i \in 1..Len(chunks) : ids[i] = id]]])

\* the chunks of a store (None has none), in the order of its vectors
StoreChunks(store) ==
    IF store = None THEN <<>>
    ELSE [i \in 1..Len(store[1].index_to_docstore_id) |->
             store[1].docstore[store[1].index_to_docstore_id[i]]]

\* db.save_local(save_path), run to its end, and FAISS.load_local of what it
\* wrote: index.faiss holds the vectors, index.pkl the docstore and the ids
SaveLocal(store) == Some([faiss |-> Len(store.index_to_docstore_id), pkl |-> store])
LoadLocal(snapshot) == IF snapshot = None THEN None ELSE Some(snapshot[1].pkl)

\* CreateVectorIndex without its test for an empty list
CreateVectorIndexAlways(docs, snapshot, draw) ==
    LET built == FromDocuments(SplitDocuments(docs, CHUNK_SIZE, CHUNK_OVERLAP), draw)
    IN  IF built.raised THEN [result |-> built, disk |-> snapshot]
        ELSE [result |-> Returns(Some(built.value)), disk |-> SaveLocal(built.value)]

\* create_vector_index(docs): what it returns (None, or the store) or
\* raises, and the snapshot directory afterwards
CreateVectorIndex(docs, snapshot, draw) ==
    IF docs = <<>> THEN [result |-> Returns(None), disk |-> snapshot]
    ELSE CreateVectorIndexAlways(docs, snapshot, draw)

\* IngestAll without its test for an empty list
IngestAllAlways(dir, snapshot, draw) ==
    LET docs == LoadDocumentsIn(dir)
    IN  IF docs.raised THEN [result |-> docs, disk |-> snapshot]
        ELSE CreateVectorIndexAlways(docs.value, snapshot, draw)

\* ingest_all(): load_documents(DATA_DIR), and create_vector_index when
\* there are documents
IngestAll(dir, snapshot, draw) ==
    LET docs == LoadDocumentsIn(dir)
    IN  IF docs.raised THEN [result |-> docs, disk |-> snapshot]
        ELSE IF docs.value # <<>> THEN CreateVectorIndex(docs.value, snapshot, draw)
        ELSE [result |-> Returns(None), disk |-> snapshot]

\* the snapshot directory before an ingest: empty, or holding what an
\* earlier ingest wrote when every file of the data directory loaded
EarlierDir == [exists |-> TRUE, files |-> [i \in 1..Len(DirFiles) |-> "loads"]]
SnapshotsBefore == {None, IngestAll(EarlierDir, None, 1).disk}

\* the lists of Documents load_documents can give
DocLists == {LoadDocumentsIn(dir).value : dir \in SourceDirs}

CallSplitDocuments(docs) ==
    /\ call = NoHelperCall
    /\ call' = [fn |-> "split_documents", docs |-> docs,
                result |-> SplitDocuments(docs, CHUNK_SIZE, CHUNK_OVERLAP)]
    /\ UNCHANGED <<searchVars, indexVars, run, serving>>

CallCreateVectorIndex(docs, snapshot, draw) ==
    /\ call = NoHelperCall
    /\ LET r == CreateVectorIndex(docs, snapshot, draw)
       IN  call' = [fn |-> "create_vector_index", docs |-> docs, before |-> snapshot,
                    raised |-> r.result.raised,
                    store |-> IF r.result.raised THEN None ELSE r.result.value,
                    after |-> r.disk]
    /\ UNCHANGED <<searchVars, indexVars, run, serving>>

\* ingest_all on dir, then load_faiss_index; fresh is what an ingest of the
\* same directory into an empty snapshot directory leaves, with other ids
CallIngestAll(dir, snapshot, draw) ==
    /\ call = NoHelperCall
    /\ LET r == IngestAll(dir, snapshot, draw)
       IN  call' = [fn |-> "ingest_all", dir |-> dir, before |-> snapshot,
                    docs |-> LoadDocumentsIn(dir).value,
                    raised |-> r.result.raised, after |-> r.disk,
                    reloaded |-> LoadLocal(r.disk),
                    fresh |-> LoadLocal(IngestAll(dir, None, 3 - draw).disk)]
    /\ UNCHANGED <<searchVars, indexVars, run, serving>>

\* ---- get_llm ----

\* model names, split after their first part: "gpt-4o" is <<"gpt-", "4o">>
ModelNames ==
    {<<"gpt-", "4o">>, <<"o1-", "mini">>, <<"llama", "3.2:3b">>, <<"o1", ":latest">>}

\* model.startswith(("gpt-", "o1-"))
IsOpenAIModel(model) == model[1] \in {"gpt-", "o1-"}

\* an API key: none given (None or ""), or one
ApiKeys == {"", "sk-key"}

\* get_llm without the check of the key
GetLlmUnchecked(model, api_key, LLM_MODEL, OPENAI_API_KEY) ==
    LET name == IF model = None THEN LLM_MODEL ELSE model[1]
    IN  IF IsOpenAIModel(name)
        THEN Returns([provider |-> "ChatOpenAI", model |-> name, api_key |-> api_key])
        ELSE Returns([provider |-> "ChatOllama", model |-> name, api_key |-> ""])

\* get_llm(temperature, model, api_key) under the configuration LLM_MODEL,
\* OPENAI_API_KEY: the handle of the provider, or ValueError
GetLlm(model, api_key, LLM_MODEL, OPENAI_API_KEY) ==
    LET name == IF model = None THEN LLM_MODEL ELSE model[1]
    IN  IF IsOpenAIModel(name)
        THEN IF api_key = "" /\ OPENAI_API_KEY = ""
             THEN Raises("ValueError")
             ELSE Returns([provider |-> "ChatOpenAI", model |-> name,
                           api_key |-> IF api_key = "" THEN OPENAI_API_KEY ELSE api_key])
        ELSE Returns([provider |-> "ChatOllama", model |-> name, api_key |-> ""])

\* what the caller does with the outcome: cli.py prints the error and
\* returns from main, app.py shows it and calls st.stop(); a direct caller
\* gets the exception
AfterGetLlm(caller, result) ==
    IF ~result.raised THEN "goes on"
    ELSE IF caller = "direct" THEN "raised" ELSE "stops"

\* cli.py calls get_llm(temperature) and app.py _cached_llm(temperature,
\* selected_model, api_key=openai_key)
CallGetLlm(caller, model, api_key, LLM_MODEL, OPENAI_API_KEY) ==
    /\ call = NoHelperCall
    /\ caller = "cli" => model = None /\ api_key = ""
    /\ caller = "ui" => model # None
    /\ LET result == GetLlm(model, api_key, LLM_MODEL, OPENAI_API_KEY)
       IN  call' = [fn |-> "get_llm", caller |-> caller,
                    model |-> IF model = None THEN LLM_MODEL ELSE model[1],
                    api_key |-> api_key, OPENAI_API_KEY |-> OPENAI_API_KEY,
                    result |-> result, next |-> AfterGetLlm(caller, result)]
    /\ UNCHANGED <<searchVars, indexVars, run, serving>>

\* ---- format_docs, _build_messages ----

\* chat_history[-6:]
HistoryWindow == 6

DEFAULT_SYSTEM_PROMPT == "You are a precise document-analysis assistant. ..."

\* the histories a caller supplies: up to MaxHistory turns, each recorded
\* with its role and a content of its own
Histories ==
    UNION {[1..n -> {"user", "assistant"}] : n \in 0..MaxHistory}

Turns(roles) == [i \in 1..Len(roles) |-> [role |-> roles[i], content |-> <<"turn", i>>]]

\* the result lists handed to the assembler: none, one Document without
\* score, two Documents the first of which carries a relevance score
ResultLists ==
    {<<>>,
     <<Entry("A.txt", 1)>>,
     <<[Entry("B.txt", 1) EXCEPT !.score = Some(RelevanceScore(0))], Entry("A.txt", 1)>>}

SystemPrompts == {None, Some(""), Some("You are a pirate.")}

\* f"{score:.0%}": the score, kept in units of 10^-5, as a whole percentage
\* rounded half to even
Percent(score) ==
    LET q == score \div 1000
        r == score % 1000
    IN  IF r > 500 \/ (r = 500 /\ q % 2 = 1) THEN q + 1 ELSE q

\* format_docs without its first branch
FormatDocsNoNotice(docs) == [i \in 1..Len(docs) |-> docs[i].content]

\* format_docs(docs): the text is kept as the sequence of its parts
FormatDocs(docs) ==
    IF docs = <<>> THEN <<"(No documents were retrieved.)">>
    ELSE [i \in 1..Len(docs) |->
            [header |-> [ordinal |-> i,
                         source |-> PathName(docs[i].source),
                         page |-> IF docs[i].page = None THEN "?" ELSE docs[i].page[1],
                         relevance |-> IF docs[i].score = None THEN None
                                       ELSE Some(Percent(docs[i].score[1]))],
             page_content |-> docs[i].content]]

\* _CONTEXT_TEMPLATE.format(context=format_docs(docs))
ContextBlock(docs) ==
    <<"=== RETRIEVED DOCUMENT CONTEXT ===", FormatDocs(docs), "=== END OF CONTEXT ===">>

SystemMessage(content) == [type |-> "system", content |-> content]
HumanMessage(content) == [type |-> "human", content |-> content]
AIMessage(content) == [type |-> "ai", content |-> content]

\* Recent without the slice
RecentAll(chat_history) == chat_history

\* recent = chat_history[-6:]
Recent(chat_history) == Suffix(chat_history, HistoryWindow)

\* HistoryMessages with the roles taken from the position, user first
HistoryMessagesByPosition(recent) ==
    [j \in 1..Len(recent) |->
        [type |-> IF j % 2 = 1 THEN "human" ELSE "ai", content |-> recent[j].content]]

\* the messages made of the turns of recent: a user turn gives a
\* HumanMessage, an assistant turn an AIMessage, any other turn nothing
RECURSIVE HistoryMessages(_)
HistoryMessages(recent) ==
    IF recent = <<>> THEN <<>>
    ELSE (IF Head(recent).role = "user" THEN <<HumanMessage(Head(recent).content)>>
          ELSE IF Head(recent).role = "assistant" THEN <<AIMessage(Head(recent).content)>>
          ELSE <<>>)
         \o HistoryMessages(Tail(recent))

\* _build_messages(query, docs, chat_history, system_prompt)
BuildMessages(query, docs, chat_history, system_prompt) ==
    LET prompt == IF system_prompt = None \/ system_prompt = Some("")
                  THEN DEFAULT_SYSTEM_PROMPT ELSE system_prompt[1]
        context_block == ContextBlock(docs)
        recent == Recent(chat_history)
    IN  <<SystemMessage(prompt)>>
            \o HistoryMessages(recent)
            \o <<HumanMessage(<<context_block, "\n\nQuestion: ", query>>)>>

\* HistoryAfter if the window were cut in place
HistoryAfterCut(chat_history) == Suffix(chat_history, HistoryWindow)

\* the caller's history once _build_messages has returned: the function
\* slices it and reads the slice, it assigns to nothing of it
HistoryAfter(chat_history) == chat_history

\* the caller's result list once _build_messages has returned: format_docs
\* reads the metadata with get, it assigns to nothing of it
DocsAfter(docs) == docs

\* _build_messages is called, and called again on what the first call left
CallBuildMessages(query, docs, chat_history, system_prompt) ==
    /\ call = NoHelperCall
    /\ call' = [fn |-> "_build_messages",
                query |-> query, docs |-> docs, chat_history |-> chat_history,
                system_prompt |-> system_prompt,
                messages |-> BuildMessages(query, docs, chat_history, system_prompt),
                docs_after |-> DocsAfter(docs),
                chat_history_after |-> HistoryAfter(chat_history),
                again |-> BuildMessages(query, DocsAfter(docs),
                                        HistoryAfter(chat_history), system_prompt)]
    /\ UNCHANGED <<searchVars, indexVars, run, serving>>

\* ---- ingest_url ----

\* len(content) < 50
MinContentLength == 50

\* A payload is a sequence of segments: the <html> tag, another tag, a
\* script or style block, a run of text, a run of whitespace; len is the
\* number of characters of the segment.
Seg(kind, len) == [kind |-> kind, len |-> len]
Segments ==
    {Seg("html", 6), Seg("tag", 3), Seg("script", 60), Seg("style", 60),
     Seg("text", 25), Seg("text", 49), Seg("ws", 20)}

Payloads == UNION {[1..n -> Segments] : n \in 0..MaxSegments}

\* "<html" in content.lower()
LooksHtml(content) == \E i \in 1..Len(content) : content[i].kind = "html"

\* _STRIP_SCRIPTS_RE.sub("", ...), _STRIP_STYLES_RE.sub("", ...)
StripBlocks(content) == SelectSeq(content, LAMBDA g : g.kind \notin {"script", "style"})

\* _STRIP_TAGS_RE.sub(" ", ...)
StripTags(content) ==
    [i \in 1..Len(content) |->
        IF content[i].kind \in {"html", "tag"} THEN Seg("ws", 1) ELSE content[i]]

\* _WHITESPACE_RE.sub(" ", ...): every run of whitespace becomes one space
RECURSIVE CollapseWhitespace(_)
CollapseWhitespace(content) ==
    IF content = <<>> THEN <<>>
    ELSE LET rest == CollapseWhitespace(Tail(content))
         IN  IF Head(content).kind # "ws" THEN <<Head(content)>> \o rest
             ELSE IF rest # <<>> /\ Head(rest).kind = "ws" THEN rest
             ELSE <<Seg("ws", 1)>> \o rest

\* .strip(), on a content whose whitespace runs are collapsed
Strip(content) ==
    LET left == IF content # <<>> /\ Head(content).kind = "ws" THEN Tail(content)
                ELSE content
    IN  IF left # <<>> /\ Last(left).kind = "ws" THEN Front(left) ELSE left

\* the text kept of a fetched payload
PageText(payload) ==
    IF LooksHtml(payload)
    THEN Strip(CollapseWhitespace(StripTags(StripBlocks(payload))))
    ELSE payload

RECURSIVE TextLength(_)
TextLength(content) ==
    IF content = <<>> THEN 0 ELSE Head(content).len + TextLength(Tail(content))

\* TooShort without its test
TooShortNever(content) == FALSE

\* not content or len(content) < 50
TooShort(content) == content = <<>> \/ TextLength(content) < MinContentLength

\* path_slug is cut to its first 50 characters
SlugLength == 50

\* a URL as urlparse splits it; netloc and path are sequences of characters
Url(scheme, netloc, path, query) ==
    [scheme |-> scheme, netloc |-> netloc, path |-> path, query |-> query]

\* a path of more than SlugLength characters, ending in c
LongPath(c) == <<"/">> \o [i \in 1..SlugLength |-> "p"] \o <<c>>

Urls ==
    {Url("https", <<"a", ".", "o">>, <<>>, ""),
     Url("https", <<"a", ".", "o">>, <<"/", "d", "/", "x">>, ""),
     Url("https", <<"a", ".", "o">>, <<"/", "d", "/", "x">>, "p=2"),
     Url("https", <<"a", ".", "o">>, <<"/", "d", "_", "x">>, ""),
     Url("https", <<"a", ".", "o">>, <<"/", "d", "/", "y">>, ""),
     Url("https", <<"b", ".", "o">>, <<"/">>, ""),
     Url("https", <<"a", ".", "o">>, LongPath("x"), ""),
     Url("https", <<"a", ".", "o">>, LongPath("y"), "")}

\* str.replace(old, new), for single characters
Replace(str, old, new) == [i \in 1..Len(str) |-> IF str[i] = old THEN new ELSE str[i]]

\* str.strip("/")
RECURSIVE StripSlashes(_)
StripSlashes(str) ==
    IF str # <<>> /\ Head(str) = "/" THEN StripSlashes(Tail(str))
    ELSE IF str # <<>> /\ Last(str) = "/" THEN StripSlashes(Front(str))
    ELSE str

\* domain = netloc.replace(".", "_");
\* path_slug = path.strip("/").replace("/", "_")[:50];
\* web_{domain}_{path_slug}.txt, or web_{domain}.txt without a path_slug
UrlFileName(url) ==
    LET domain == Replace(url.netloc, ".", "_")
        path_slug == Prefix(Replace(StripSlashes(url.path), "/", "_"), SlugLength)
    IN  IF path_slug # <<>>
        THEN <<"w", "e", "b", "_">> \o domain \o <<"_">> \o path_slug \o <<".txt">>
        ELSE <<"w", "e", "b", "_">> \o domain \o <<".txt">>

\* what the fetch does: it answers with a payload, or requests.get or
\* raise_for_status raises a RequestException
FetchFailures == {"ConnectionError", "Timeout", "HTTPError"}
Fetched(payload) == [error |-> "", text |-> payload]
FetchFailed(error) == [error |-> error, text |-> <<>>]
Fetches == {Fetched(p) : p \in Payloads} \cup {FetchFailed(e) : e \in FetchFailures}

\* the fetch failure left to propagate
PropagateRequest(error) == Raises(error)

\* except requests.RequestException as exc: return False, f"Network error: {exc}"
CatchRequest(error) == Returns(<<FALSE, <<"Network error: ", error>>>>)

\* (DATA_DIR / filename).write_text(content): the directory with the file
WriteText(dir, name, content) ==
    {f \in dir : f.name # name} \cup {[name |-> name, content |-> content]}

\* ingest_url(url): the pair it returns and the data directory it leaves;
\* fetched is the payload or the failure of the fetch, writable whether the
\* file can be opened for writing
IngestUrl(url, fetched, writable, dir) ==
    IF fetched.error # ""
    THEN [result |-> CatchRequest(fetched.error), dir |-> dir]
    ELSE LET content == PageText(fetched.text)
         IN  IF TooShort(content)
             THEN [result |-> Returns(<<FALSE, "Page content too short or empty.">>),
                   dir |-> dir]
             ELSE IF ~writable
             THEN [result |-> Returns(<<FALSE, "OSError">>), dir |-> dir]
             ELSE [result |-> Returns(<<TRUE, <<"Saved as ", UrlFileName(url),
                                               TextLength(content)>>>>),
                   dir |-> WriteText(dir, UrlFileName(url), content)]

\* the data directory after an earlier ingest of earlier alone
SavedFor(earlier) ==
    {[name |-> UrlFileName(earlier), content |-> <<Seg("text", 49), Seg("text", 25)>>]}

\* the data directory before the call: empty, or holding the file of an
\* earlier ingest of the URL or of another one
DirsBefore(url) == {{}} \cup {SavedFor(earlier) : earlier \in Urls}

CallIngestUrl(url, fetched, writable, dir) ==
    /\ call = NoHelperCall
    /\ LET r == IngestUrl(url, fetched, writable, dir)
       IN  call' = [fn |-> "ingest_url", url |-> url, fetched |-> fetched,
                    writable |-> writable, dir |-> dir,
                    result |-> r.result, dir_after |-> r.dir]
    /\ UNCHANGED <<searchVars, indexVars, run, serving>>

\* ---- a store used with an embedding model ----

\* values of EMBEDDING_MODEL and the size of the vectors each model gives
EmbeddingModels ==
    {"BAAI/bge-small-en-v1.5", "sentence-transformers/all-MiniLM-L6-v2",
     "BAAI/bge-base-en-v1.5"}
Dimension(model) == IF model = "BAAI/bge-base-en-v1.5" THEN 768 ELSE 384

\* VECTOR_DIR after create_vector_index ran under EMBEDDING_MODEL = model:
\* the flat index keeps the size d of its vectors
SavedWith(model) == Some([d |-> Dimension(model), entries |-> BuildStore(1, 1)])

\* load_faiss_index(embeddings): FAISS.load_local reads the index and the
\* docstore and keeps the embeddings object; it embeds nothing and compares
\* no sizes
LoadWith(snapshot, embeddings) ==
    IF snapshot = None THEN Returns(None)
    ELSE Returns(Some([index |-> snapshot[1], embedding_function |-> embeddings]))

\* the index's search is given a query vector of another size than d and
\* its assertion fails
DimensionFails(store) == Dimension(store.embedding_function) # store.index.d

\* semantic_search(db, query, top_k) on what load_faiss_index returned
SearchWith(loaded, q, k) ==
    IF loaded = None THEN <<>>
    ELSE SearchRows(PresentDb(loaded[1].index.entries), q, k, NoFilter,
                    DimensionFails(loaded[1]))

\* retrieve_with_scores(db, query, top_k), which the chat tab calls once
\* db is not None; nothing in it catches
RetrieveWith(loaded, q, k) ==
    IF loaded = None THEN Returns(<<>>)
    ELSE IF DimensionFails(loaded[1]) THEN Raises("AssertionError")
    ELSE Returns(DocsOf(SimilaritySearch(loaded[1].index.entries, q, k, NoFilter)))

\* a process starts with get_embeddings() under EMBEDDING_MODEL = model on
\* a directory saved under built (None: no snapshot), loads and searches
CallUseStore(built, model, q, k) ==
    /\ call = NoHelperCall
    /\ LET snapshot == IF built = None THEN None ELSE SavedWith(built[1])
           loaded == LoadWith(snapshot, model)
       IN  call' = [fn |-> "use_store", built |-> built, model |-> model,
                    loaded |-> loaded,
                    rows |-> IF loaded.raised THEN loaded
                             ELSE Returns(SearchWith(loaded.value, q, k)),
                    docs |-> IF loaded.raised THEN loaded
                             ELSE RetrieveWith(loaded.value, q, k)]
    /\ UNCHANGED <<searchVars, indexVars, run, serving>>

\* ---- get_index_stats ----

\* the metadata of a stored Document: source is missing or a path (its
\* directory and its file name, a sequence of characters), page is
\* missing or a page number
Metadata ==
    [source : {None, Some(<<"data", <<"A">>>>), Some(<<"web", <<"A">>>>),
               Some(<<"data", <<"A", ":", "1">>>>)},
     page : {None, Some(0), Some(1), Some(11)}]

\* db.docstore._dict.values() of the stores looked at
StatStores ==
    {AbsentDb} \cup {PresentDb(e) : e \in UNION {[1..n -> Metadata] : n \in 0..MaxEntries}}

\* str(page) for the page numbers of the model
Digit(n) == <<"0", "1", "2", "3", "4", "5", "6", "7", "8", "9">>[n + 1]
Digits(n) == IF n < 10 THEN <<Digit(n)>> ELSE <<Digit(n \div 10), Digit(n % 10)>>

\* Path(doc.metadata.get("source", "Unknown")).name
SourceName(meta) == IF meta.source = None THEN <<"Unknown">> ELSE meta.source[1][2]

\* PageKey without the source name
PageKeyOfPage(meta) == IF meta.page = None THEN <<"?">> ELSE Digits(meta.page[1])

\* f"{src}:{page}", with page = doc.metadata.get("page", "?")
PageKey(meta) ==
    SourceName(meta) \o <<":">> \o (IF meta.page = None THEN <<"?">> ELSE Digits(meta.page[1]))

\* dict(_EMPTY_STATS)
EMPTY_STATS == [total_chunks |-> 0, unique_sources |-> 0, total_pages |-> 0, sources |-> {}]

\* get_index_stats(db); fails: the store has no docstore._dict to read, and
\* the except clause answers
GetIndexStats(store, fails) ==
    IF ~store.present THEN Returns(EMPTY_STATS)
    ELSE IF fails THEN Returns(EMPTY_STATS)
    ELSE LET all_docs == store.entries
             sources == {SourceName(all_docs[i]) : i \in 1..Len(all_docs)}
             pages == {PageKey(all_docs[i]) : i \in 1..Len(all_docs)}
         IN  Returns([total_chunks |-> Len(all_docs),
                      unique_sources |-> Cardinality(sources),
                      total_pages |-> Cardinality(pages),
                      sources |-> sources])

CallGetIndexStats(store, fails) ==
    /\ call = NoHelperCall
    /\ call' = [fn |-> "get_index_stats", store |-> store, fails |-> fails,
                result |-> GetIndexStats(store, fails)]
    /\ UNCHANGED <<searchVars, indexVars, run, serving>>

\* ---- generate_followups, called on its own ----

\* what llm.invoke gives: a response of some lines, a content that is no
\* string, or an exception
ModelAnswers == {Returns(r) : r \in Responses} \cup {Returns(NotAString), Raises("model")}

CallGenerateFollowups(answer) ==
    /\ call = NoHelperCall
    /\ call' = [fn |-> "generate_followups", answer |-> answer, model_calls |-> 1,
                result |-> GenerateFollowups(answer)]
    /\ UNCHANGED <<searchVars, indexVars, run, serving>>

\* the caller has taken the result; the next call can be made
ReturnHelper ==
    /\ call # NoHelperCall
    /\ call' = NoHelperCall
    /\ UNCHANGED <<searchVars, indexVars, run, serving>>

HelpersInit ==
    /\ dataVer = 0
    /\ disk = NoSnapshot
    /\ IndexIdle
    /\ db = AbsentDb
    /\ out = NoCall
    /\ run = NoRun
    /\ serving = NoServing
    /\ call = NoHelperCall

\* a helper is called when no call is pending
HelpersNext ==
    \/ /\ call = NoHelperCall
       /\ \E dir \in SourceDirs : CallLoadDocuments(dir)
    \/ /\ call = NoHelperCall
       /\ \E docs \in DocLists : CallSplitDocuments(docs)
    \/ /\ call = NoHelperCall
       /\ \E docs \in DocLists, snapshot \in SnapshotsBefore, draw \in 1..2 :
              CallCreateVectorIndex(docs, snapshot, draw)
    \/ /\ call = NoHelperCall
       /\ \E dir \in SourceDirs, snapshot \in SnapshotsBefore, draw \in 1..2 :
              CallIngestAll(dir, snapshot, draw)
    \/ /\ call = NoHelperCall
       /\ \E caller \in {"direct", "cli", "ui"},
             model \in {None} \cup {Some(n) : n \in ModelNames},
             api_key \in ApiKeys, LLM_MODEL \in ModelNames, OPENAI_API_KEY \in ApiKeys :
              CallGetLlm(caller, model, api_key, LLM_MODEL, OPENAI_API_KEY)
    \/ /\ call = NoHelperCall
       /\ \E query \in Queries, docs \in ResultLists, roles \in Histories,
             system_prompt \in SystemPrompts :
              CallBuildMessages(query, docs, Turns(roles), system_prompt)
    \/ /\ call = NoHelperCall
       /\ \E url \in Urls, fetched \in Fetches, writable \in BOOLEAN :
              \E dir \in DirsBefore(url) : CallIngestUrl(url, fetched, writable, dir)
    \/ /\ call = NoHelperCall
       /\ \E answer \in ModelAnswers : CallGenerateFollowups(answer)
    \/ /\ call = NoHelperCall
       /\ \E store \in StatStores, fails \in BOOLEAN : CallGetIndexStats(store, fails)
    \/ /\ call = NoHelperCall
       /\ \E built \in {None} \cup {Some(n) : n \in EmbeddingModels},
             model \in EmbeddingModels, q \in Queries, k \in 1..MaxK :
              CallUseStore(built, model, q, k)
    \/ ReturnHelper

SpecHelpers == HelpersInit /\ [][HelpersNext]_vars

\* generate_followups on its own and inside a caller's run: a behaviour is
\* one of SpecHelpers or one of SpecRun
SpecFollowups ==
    (RunInit \/ HelpersInit) /\ [][RunNext \/ (run = NoRun /\ HelpersNext)]_vars

-----------------------------------------------------------------------------
(* load_documents with its thread pool at work: pool.map submits one task  *)
(* per file, the worker threads take the tasks in the order of submission  *)
(* and finish them in any order, and list(...) gathers the batches.  call  *)
(* holds the call in progress.                                             *)

\* files = [f for ext in _LOADERS for f in source_dir.glob("*" + ext)]
FilesOf(dir) == Flatten([e \in 1..Len(LoaderExts) |-> Glob(dir, LoaderExts[e])])

\* the batches in the order the tasks finished
BatchesAsCompleted(c) == [k \in 1..Len(c.finished) |-> c.batches[c.finished[k]]]

\* list(pool.map(_load_single, files)): the batches in the order of the files
Batches(c) == [j \in 1..Len(c.files) |-> c.batches[j]]

\* load_documents is called: a missing directory or one without supported
\* files returns [] at once, otherwise the pool gets its tasks
PoolSubmit(dir) ==
    /\ call = NoHelperCall
    /\ LET files == IF dir.exists THEN FilesOf(dir) ELSE <<>>
       IN  call' = [fn |-> "pool", dir |-> dir, files |-> files,
                    task |-> [j \in 1..Len(files) |-> "queued"],
                    batches |-> [j \in 1..Len(files) |-> <<>>],
                    finished |-> <<>>,
                    pc |-> IF files = <<>> THEN "returned" ELSE "mapping",
                    result |-> <<>>]
    /\ UNCHANGED <<searchVars, indexVars, run, serving>>

Running(c) == {j \in 1..Len(c.files) : c.task[j] = "running"}
Queued(c) == {j \in 1..Len(c.files) : c.task[j] = "queued"}

\* an idle worker thread takes the next task of the queue
WorkerTakes ==
    /\ call.fn = "pool" /\ call.pc = "mapping"
    /\ Queued(call) # {}
    /\ Cardinality(Running(call)) < PoolThreads
    /\ call' = [call EXCEPT !.task[MinOf(Queued(call))] = "running"]
    /\ UNCHANGED <<searchVars, indexVars, run, serving>>

\* a worker's _load_single(file) returns: its batch is the task's result
WorkerReturns(j) ==
    /\ call.fn = "pool" /\ call.pc = "mapping"
    /\ j \in Running(call)
    /\ call' = [call EXCEPT !.task[j] = "done",
                            !.batches[j] = LoadSingle(call.dir, call.files[j]).value,
                            !.finished = Append(call.finished, j)]
    /\ UNCHANGED <<searchVars, indexVars, run, serving>>

\* every task is done: the pool shuts down and the batches are flattened
PoolGather ==
    /\ call.fn = "pool" /\ call.pc = "mapping"
    /\ \A j \in 1..Len(call.files) : call.task[j] = "done"
    /\ call' = [call EXCEPT !.pc = "returned", !.result = Flatten(Batches(call))]
    /\ UNCHANGED <<searchVars, indexVars, run, serving>>

\* the caller has the list
PoolReturn ==
    /\ call.fn = "pool" /\ call.pc = "returned"
    /\ call' = NoHelperCall
    /\ UNCHANGED <<searchVars, indexVars, run, serving>>

\* the directories followed: files in the first MaxPoolFiles entries only
PoolDirs ==
    {dir \in SourceDirs : \A i \in 1..Len(DirFiles) : i > MaxPoolFiles => dir.files[i] = "absent"}

LoadNext ==
    \/ /\ call = NoHelperCall
       /\ \E dir \in PoolDirs : PoolSubmit(dir)
    \/ WorkerTakes
    \/ \E j \in 1..Len(DirFiles) : WorkerReturns(j)
    \/ PoolGather
    \/ PoolReturn

SpecLoad == HelpersInit /\ [][LoadNext]_vars

-----------------------------------------------------------------------------
(* The specification of the retrieval functions over any store.           *)

\* the stores a process can hold: none, or one built from a non-empty set of chunks
Stores ==
    {AbsentDb} \cup {PresentDb(BuildStore(c[1], c[2])) : c \in StoreShapes}

SearchInit ==
    /\ db \in Stores
    /\ out = NoCall
    /\ dataVer = 0
    /\ disk = NoSnapshot
    /\ IndexIdle
    /\ run = NoRun
    /\ serving = NoServing
    /\ call = NoHelperCall

SearchNext ==
    \E q \in Queries, k \in 1..MaxK, filter \in Filters :
        \/ RetrieveWithScores(q, k, filter)
        \/ \E fails \in BOOLEAN : SemanticSearch(q, k, filter, fails)
        \/ RetrieverInvoke(q, k, filter)

SpecSearch == SearchInit /\ [][SearchNext]_vars

-----------------------------------------------------------------------------
(* Properties of retrieval, checked under SpecSearch.                      *)

\* the calls that handed a result list to the caller
Retrieved == out.fn \in {"retrieve_with_scores", "semantic_search", "retriever"}
                /\ out.cond \notin {"absent", "failed"}

\* the number of results of the last call
ResultCount == IF out.fn = "semantic_search" THEN Len(out.rows) ELSE Len(out.docs)

\* the content of the j-th result of the last call
ResultContent(j) ==
    IF out.fn = "semantic_search" THEN out.rows[j].content
    ELSE db.entries[out.docs[j]].content

\* the score the caller reads on the j-th result: the dictionary's "score",
\* or the Document's metadata["score"]
ResultScore(j) ==
    IF out.fn = "semantic_search" THEN out.rows[j].score
    ELSE db.entries[out.docs[j]].score[1]

\* the entries of source X, and those of them the last call returned
InScope(X) == {i \in 1..Len(db.entries) : db.entries[i].source = X}
Returned == {i \in 1..Len(db.entries) :
                \E j \in 1..ResultCount : ResultContent(j) = db.entries[i].content}

QueryScore(i) == RelevanceScore(Dist(db.entries[i].vec, EmbedQuery(out.query)))

\* C1: a retrieval filtered to source X returns exactly the min(k, n_X)
\* highest-scoring chunks among the n_X chunks of X (none when n_X = 0), no
\* chunk of X being left out however many chunks of other sources score higher.
C1_FilteredTopK ==
    (Retrieved /\ out.fn # "retriever" /\ out.filter # NoFilter) =>
        /\ ResultCount = Min(out.k, Cardinality(InScope(out.filter)))
        /\ Returned \subseteq InScope(out.filter)
        /\ \A i \in InScope(out.filter) \ Returned :
               \A r \in Returned : QueryScore(i) <= QueryScore(r)

\* C4: a retrieval leaves the shared store as it was built: every stored
\* entry keeps its content and metadata, no relevance score is kept in it,
\* and the Documents a call hands out carry no score of another query.
C4_StoreUnchanged ==
    db.present =>
        /\ \A i \in 1..Len(db.entries) :
               db.entries[i] = Entry(db.entries[i].content[1], db.entries[i].content[2])
        /\ (Retrieved /\ out.fn # "semantic_search") =>
               \A j \in 1..Len(out.docs) :
                   db.entries[out.docs[j]].score \in {None, Some(QueryScore(out.docs[j]))}

\* C6: the caller of semantic_search can tell the empty conditions apart:
\* the value returned under one of them (absent store, failed search, no
\* match) is not the value the same call returns under another.
C6_EmptyDistinct ==
    (out.fn = "semantic_search" /\ out.cond \in EmptyConds) =>
        /\ out.cond # "absent" =>
               out.rows # SearchRows(AbsentDb, out.query, out.k, out.filter, FALSE)
        /\ out.cond # "failed" =>
               out.rows # SearchRows(PresentDb(BuildStore(1, 1)), out.query, out.k,
                                     out.filter, TRUE)
        /\ out.cond # "nomatch" =>
               out.rows # SearchRows(PresentDb(BuildStore(1, 0)), out.query, out.k,
                                     PathOf(FileNames[2]), FALSE)

\* C9: an unfiltered retrieval over a store of N chunks returns exactly
\* min(k, N) results, in order of non-increasing relevance score.
C9_UnfilteredTopK ==
    (Retrieved /\ out.filter = NoFilter) =>
        /\ ResultCount = Min(out.k, Len(db.entries))
        /\ out.fn # "retriever" =>
               \A j \in 1..(ResultCount - 1) : ResultScore(j) >= ResultScore(j + 1)

\* C9 witness: an unfiltered search capped by k, over a larger store, whose
\* results have different scores
C9_Witness ==
    /\ out.fn = "semantic_search" /\ out.filter = NoFilter /\ out.cond = "none"
    /\ out.k >= 2 /\ Len(db.entries) > out.k /\ Len(out.rows) = out.k
    /\ out.rows[1].score > out.rows[2].score

\* C10: every result of a retrieval filtered to source X has metadata
\* source X, also when chunks of other sources score higher.
C10_OnlyFilterSource ==
    (Retrieved /\ out.filter # NoFilter) =>
        /\ \A j \in 1..Len(out.docs) : db.entries[out.docs[j]].source = out.filter
        /\ \A j \in 1..Len(out.rows) : out.rows[j].source = PathName(out.filter)

\* C10 witness: a filtered retrieval returned a chunk although a chunk of
\* another source scores strictly higher for the query
C10_Witness ==
    /\ out.fn = "retrieve_with_scores" /\ out.filter # NoFilter /\ Len(out.docs) >= 1
    /\ \E i \in 1..Len(db.entries) :
           /\ db.entries[i].source # out.filter
           /\ QueryScore(i) > QueryScore(out.docs[1])

-----------------------------------------------------------------------------
(* Properties of the snapshot, checked under SpecIndex.                    *)

\* the session has loaded its documents and has not yet returned from ingest_all
InProgress(s) == builder[s].pc \notin {"idle", "start"}

\* the directory holds one complete snapshot: both files whole, of one rebuild
DiskComplete ==
    /\ Readable(disk.faiss) /\ Readable(disk.pkl)
    /\ disk.faiss[1].ver = disk.pkl[1].ver

\* C2: the snapshot is overwritten atomically: a load that finds a snapshot
\* in the directory, at any instant of a rebuild, gets a complete one (the
\* previous or the new), never a partially written one or a mix of both.
C2_AtomicOverwrite ==
    (loader.pc = "done" /\ loader.exists) =>
        /\ loader.result.store
        /\ loader.result.faiss = loader.result.pkl

\* C3: rebuilds are single-flight: the load/embed/save steps of two
\* ingest_all invocations never interleave, so the snapshot they leave on
\* disk is the complete output of one of them.
C3_SingleFlight ==
    /\ \A s1, s2 \in Sessions : (InProgress(s1) /\ InProgress(s2)) => s1 = s2
    /\ ((\A s \in Sessions : ~InProgress(s)) /\ disk # NoSnapshot) => DiskComplete

\* C8: load_faiss_index returns None exactly when no snapshot exists: None
\* without raising when there is none, and something else than None for a
\* snapshot that exists, unreadable or not.
C8_AbsentSentinel ==
    loader.pc = "done" => (loader.result = LoadedNone <=> ~loader.exists)

-----------------------------------------------------------------------------
(* Properties of the callers.                                              *)

\* the run has loaded the store and got the absent sentinel
StoreAbsent == run.loaded /\ ~db.present

\* the CLI has returned from main, or the script run of the UI is over
RunEnded == run.pc \in {"exit", "idle"}

\* C5: when the stream raises in the middle of an answer, the text
\* accumulated from the deltas received so far is recorded for the turn (the
\* history ends with the assistant message holding it) and the error is
\* reported.
C5_PartialPreserved ==
    run.failed # None =>
        /\ run.reported
        /\ run.history # <<>>
        /\ Last(run.history).role = "assistant"
        /\ Last(run.history).content = run.failed[1]

\* C7 as stated: once the load returned the absent sentinel, the run invokes
\* neither retrieval nor generation, and when it is over the user has been
\* told that no index exists.
C7_AbsentToldAlways ==
    StoreAbsent =>
        /\ run.calls = {}
        /\ RunEnded => run.told

\* C7: once the load returned the absent sentinel, the run invokes neither
\* retrieval nor generation, and when it is over the user has been told that
\* no index exists, unless the run is a script run of the chat UI that
\* stopped on the failure to create the chat model, whose error is shown
\* instead.
C7_AbsentNoRetrieval ==
    StoreAbsent =>
        /\ run.calls = {}
        /\ RunEnded => (run.told \/ (run.app = "ui" /\ run.reported))

\* the chat UI stopped at the guard of the chat tab and showed the warning
C7_Witness ==
    /\ StoreAbsent /\ RunEnded
    /\ run.app = "ui" /\ run.told /\ ~run.reported
    /\ run.calls = {}

-----------------------------------------------------------------------------
(* Properties of the served store, checked under SpecSwap.                 *)

\* a request in flight holds the store it acquired
KeepsInstance ==
    \A r \in Readers :
        (serving.req[r].pc = "acquired" /\ serving'.req[r].pc = "acquired") =>
            serving'.req[r].store = serving.req[r].store

\* a request started after a completed rebuild holds the store of that rebuild
FreshAfterSwap ==
    \A r \in Readers :
        (serving.req[r].pc = "acquired" /\ serving.req[r].since > 0) =>
            serving.req[r].store = PresentDb(StoreOf(serving.req[r].since))

\* C11: a request keeps the store instance it acquired for its whole
\* retrieval, also when a rebuild completes meanwhile, and every request
\* that starts after a rebuild completed and the cache was cleared uses the
\* store of that rebuild, never the previous one.
C11_SnapshotSwap == [][KeepsInstance]_vars /\ []FreshAfterSwap

-----------------------------------------------------------------------------
(* Properties of the helper functions, checked under SpecHelpers.          *)

\* the files of the directory that are supported and load
Loadable(dir) ==
    {i \in 1..Len(DirFiles) :
        /\ dir.exists /\ dir.files[i] = "loads"
        /\ \E e \in 1..Len(LoaderExts) : LoaderExts[e] = DirFiles[i].suffix}

\* C12: whatever files the source directory holds and whichever of them make
\* their loader raise, load_documents does not raise and returns exactly the
\* documents of the supported files that load, each once; a failing file
\* contributes none and does not keep the others from being loaded.
C12_LoadIsolatesFailures ==
    call.fn = "load_documents" =>
        /\ ~call.result.raised
        /\ \A i \in Loadable(call.dir) : \A p \in 1..DirFiles[i].pages :
               Cardinality({j \in 1..Len(call.result.value) :
                               call.result.value[j] = <<DirFiles[i].name, p>>}) = 1
        /\ \A j \in 1..Len(call.result.value) :
               \E i \in Loadable(call.dir) : call.result.value[j][1] = DirFiles[i].name

\* C12 witness: a loader raised on one supported file and the documents of
\* another one came back
C12_Witness ==
    /\ call.fn = "load_documents"
    /\ \E i \in 1..Len(DirFiles) :
           call.dir.files[i] = "raises" /\ DirFiles[i].suffix = ".pdf"
    /\ ~call.result.raised /\ Len(call.result.value) >= 1

\* C13: for every model name that selects the cloud provider, with no API
\* key in the argument and none configured, get_llm raises the configuration
\* error and hands back no model handle, and the CLI and the UI stop on it.
C13_MissingKeyFailsFast ==
    (call.fn = "get_llm" /\ IsOpenAIModel(call.model)
        /\ call.api_key = "" /\ call.OPENAI_API_KEY = "") =>
        /\ call.result = Raises("ValueError")
        /\ call.caller \in {"cli", "ui"} => call.next = "stops"

\* C13 witness: the CLI, configured with a cloud model and no key, stopped
\* on the error
C13_Witness ==
    /\ call.fn = "get_llm" /\ call.caller = "cli"
    /\ call.model = <<"gpt-", "4o">> /\ call.OPENAI_API_KEY = ""
    /\ call.result.raised /\ call.next = "stops"

\* the messages of the last assembly between the first and the last
Segment == SubSeq(call.messages, 2, Len(call.messages) - 1)

\* C14: whatever the query, results, history and system prompt, the message
\* list starts with a system message and holds no other one, ends with a
\* user message whose text ends with the literal question, and has at most
\* six history messages between the two.
C14_MessageShape ==
    call.fn = "_build_messages" =>
        /\ Len(call.messages) >= 2
        /\ call.messages[1].type = "system"
        /\ \A j \in 2..Len(call.messages) : call.messages[j].type # "system"
        /\ Last(call.messages).type = "human"
        /\ Last(Last(call.messages).content) = call.query
        /\ Len(Segment) <= 6

\* C14 witness: an assembly over a history longer than the window
C14_Witness ==
    /\ call.fn = "_build_messages"
    /\ Len(call.chat_history) > 6
    /\ Len(call.messages) = 8

\* C15: the history segment is the last six turns of the supplied history
\* (all of them when there are fewer), in their order, each as a message of
\* the role recorded for the turn and with its content.
C15_HistoryWindow ==
    call.fn = "_build_messages" =>
        LET n == Len(call.chat_history)
            w == IF n < 6 THEN n ELSE 6
        IN  /\ Len(Segment) = w
            /\ \A j \in 1..w :
                   /\ Segment[j].content = call.chat_history[n - w + j].content
                   /\ Segment[j].type =
                          IF call.chat_history[n - w + j].role = "user" THEN "human" ELSE "ai"

\* C15 witness: the window dropped the oldest turn of a history of seven
\* whose last six turns do not alternate
C15_Witness ==
    /\ call.fn = "_build_messages"
    /\ Len(call.chat_history) = 7
    /\ call.chat_history[6].role = call.chat_history[7].role
    /\ Segment[1].content = call.chat_history[2].content

\* C16: with an empty result list the final user message still holds the
\* delimited context block, and the block says that no documents were
\* retrieved.
C16_EmptyContextStated ==
    (call.fn = "_build_messages" /\ call.docs = <<>>) =>
        LET block == Last(call.messages).content[1]
        IN  /\ Len(block) = 3
            /\ block[1] = "=== RETRIEVED DOCUMENT CONTEXT ==="
            /\ block[2] = <<"(No documents were retrieved.)">>
            /\ block[3] = "=== END OF CONTEXT ==="

\* C16 witness: an assembly with no results and some history
C16_Witness ==
    /\ call.fn = "_build_messages" /\ call.docs = <<>>
    /\ call.chat_history # <<>>
    /\ Len(Last(call.messages).content) = 3

FetchedShort ==
    /\ call.fetched.error = ""
    /\ TextLength(PageText(call.fetched.text)) < 50

\* C18: when the text of the fetched page (stripped of script and style
\* blocks and tags, whitespace collapsed, if the payload looks like HTML) is
\* empty or shorter than 50 characters, ingest_url returns (False, message)
\* and the data directory is as it was.
C18_ShortPageRejected ==
    (call.fn = "ingest_url" /\ FetchedShort) =>
        /\ ~call.result.raised
        /\ call.result.value[1] = FALSE
        /\ call.dir_after = call.dir

\* C18 witness: an HTML page longer than 50 characters whose text is not,
\* fetched for a URL already ingested once, was rejected
C18_Witness ==
    /\ call.fn = "ingest_url" /\ FetchedShort
    /\ LooksHtml(call.fetched.text) /\ TextLength(call.fetched.text) >= 50
    /\ call.writable /\ call.dir # {}
    /\ call.result.value[1] = FALSE

\* C19: ingest_url never raises: a failure of the fetch or of a later step
\* comes back as (False, message), and (True, message) comes back only with
\* the file written.
C19_IngestUrlNeverRaises ==
    call.fn = "ingest_url" =>
        /\ ~call.result.raised
        /\ call.result.value[1] \in BOOLEAN
        /\ (call.fetched.error # "" \/ ~call.writable) => call.result.value[1] = FALSE
        /\ call.result.value[1] = TRUE =>
               \E f \in call.dir_after :
                   f.name = UrlFileName(call.url) /\ f.content = PageText(call.fetched.text)

\* C19 witness: the fetch timed out and the pair (False, message) came back
C19_Witness ==
    /\ call.fn = "ingest_url" /\ call.fetched = FetchFailed("Timeout")
    /\ ~call.result.raised /\ call.result.value[1] = FALSE
    /\ call.dir_after = call.dir

\* the line has a character that is not whitespace
NonBlank(line) == \E i \in 1..Len(line) : line[i] # " "

\* t is line without its leading and trailing whitespace
TrimOf(t, line) ==
    /\ t # <<>> /\ t[1] # " " /\ t[Len(t)] # " "
    /\ \E a \in 0..Len(line) :
           /\ Len(t) + a <= Len(line)
           /\ \A i \in 1..Len(line) :
                  IF i > a /\ i <= a + Len(t) THEN line[i] = t[i - a] ELSE line[i] = " "

\* C20: generate_followups makes one model call and returns the non-blank
\* lines of the response, trimmed, in their order, cut to the first three:
\* at most 3 entries, none empty, none with whitespace at either end.
C20_FollowupsParsed ==
    (call.fn = "generate_followups" /\ ~call.answer.raised
        /\ call.answer.value # NotAString) =>
        LET lines == call.answer.value
            nonblank == SelectSeq([i \in 1..Len(lines) |-> i], LAMBDA i : NonBlank(lines[i]))
            n == IF Len(nonblank) < 3 THEN Len(nonblank) ELSE 3
            got == call.result.value
        IN  /\ call.model_calls = 1
            /\ ~call.result.raised
            /\ Len(got) = n
            /\ \A j \in 1..n : TrimOf(got[j], lines[nonblank[j]])

\* C20 witness: a response of four non-blank lines, one of them padded
\* with whitespace, between blank ones
C20_Witness ==
    /\ call.fn = "generate_followups" /\ ~call.answer.raised
    /\ Len(call.answer.value) = 4
    /\ \A i \in 1..4 : NonBlank(call.answer.value[i])
    /\ call.answer.value[1] = <<" ", "y", " ">>
    /\ call.result.value[1] = <<"y">>
    /\ Len(call.result.value) = 3

-----------------------------------------------------------------------------
(* Follow-up generation is best effort.                                    *)

\* the model call raised, or its output cannot be parsed
FollowupFailure(answer) == answer.raised \/ answer.value = NotAString

\* a call of generate_followups never raises, makes one model call, and
\* gives [] when the generation failed
FailureGivesNone ==
    call.fn = "generate_followups" =>
        /\ ~call.result.raised
        /\ call.model_calls = 1
        /\ FollowupFailure(call.answer) => call.result.value = <<>>

\* when the chat UI is about to generate follow-ups, the answer of the turn
\* is the last entry of the history
AnswerRecorded ==
    (run.app = "ui" /\ run.pc = "followups") =>
        /\ run.history # <<>>
        /\ Last(run.history) = AssistantMsg(run.full, run.tokens)

\* the follow-up step leaves the history alone and the script goes on
FollowupsStep ==
    (run.app = "ui" /\ run.pc = "followups") =>
        /\ run'.history = run.history
        /\ run'.pc = "search"
        /\ ~run'.reported

\* C21: any failure of follow-up generation (the model call raising, an
\* output that cannot be parsed) gives an empty list, with one model call
\* and no exception; in the chat UI the answer is in the history before
\* follow-up generation starts, and the step neither changes the history
\* nor stops the script.
C21_FollowupsBestEffort ==
    /\ []FailureGivesNone
    /\ []AnswerRecorded
    /\ [][FollowupsStep]_vars

\* C21 witness: the model's content was no string and the function gave []
C21_Witness ==
    /\ call.fn = "generate_followups"
    /\ call.answer = Returns(NotAString)
    /\ call.result = Returns(<<>>)

-----------------------------------------------------------------------------
(* The streamed answer.                                                    *)

\* the stream ends without error in this step
StreamCompletes == run.pc = "stream" /\ run'.pc # "stream" /\ run'.failed = None

\* while the deltas arrive, the response so far is their concatenation and
\* the UI's counter their number
StreamSoFar ==
    run.pc = "stream" =>
        /\ run.full = Flatten(run.stream)
        /\ run.app = "ui" => run.tokens = Len(run.stream)

\* the turn recorded when the stream completes
StreamRecorded ==
    StreamCompletes =>
        /\ Len(run'.history) > Len(run.chat_history)
        /\ Last(run'.history).role = "assistant"
        /\ Last(run'.history).content = Flatten(run.stream)
        /\ run.app = "ui" => Last(run'.history).tokens = Len(run.stream)

\* C22: for a stream that runs to completion, the response recorded for
\* the turn is the concatenation, in arrival order, of the contents of all
\* the deltas received, and the token count the UI records is the number
\* of deltas received.
C22_StreamConcatenated == []StreamSoFar /\ [][StreamRecorded]_vars

\* C22 witness: the UI recorded an answer that came as a delta of two
\* characters and an empty delta
C22_Witness ==
    /\ run.app = "ui" /\ run.pc = "followups"
    /\ run.stream = << <<"b", "c">>, <<>> >>
    /\ Last(run.history).content = <<"b", "c">>
    /\ Last(run.history).tokens = 2

-----------------------------------------------------------------------------
(* Ingestion, run alone: determinism, round trip, the empty document set.  *)

ChunkSet(store) == {StoreChunks(store)[i] : i \in 1..Len(StoreChunks(store))}

\* C23: ingesting a document set and reloading the snapshot gives a store
\* with the same chunk count and the same chunks (source, page, start
\* offset, content) as a fresh ingest of the same set.
C23_IngestRoundTrip ==
    call.fn = "ingest_all" =>
        /\ Len(StoreChunks(call.reloaded)) = Len(StoreChunks(call.fresh))
        /\ ChunkSet(call.reloaded) = ChunkSet(call.fresh)

\* C26: with zero documents nothing happens and nothing fails:
\* split_documents([]) is [], create_vector_index([]) returns None, and
\* ingest_all on a directory without a loadable document raises nothing;
\* the two leave the snapshot directory as it was.
C26_EmptyIngestNoOp ==
    /\ (call.fn = "split_documents" /\ call.docs = <<>>) => call.result = <<>>
    /\ (call.fn = "create_vector_index" /\ call.docs = <<>>) =>
            ~call.raised /\ call.store = None /\ call.after = call.before
    /\ (call.fn = "ingest_all" /\ call.docs = <<>>) =>
            ~call.raised /\ call.after = call.before

\* C26 witness: ingest_all over an earlier snapshot, on a directory whose
\* only supported file is rejected by its loader
C26_Witness ==
    /\ call.fn = "ingest_all" /\ call.docs = <<>>
    /\ call.dir.exists /\ \E i \in 1..Len(DirFiles) : call.dir.files[i] = "raises"
    /\ call.before # None /\ call.after = call.before
    /\ ~call.raised

-----------------------------------------------------------------------------
(* The parallel load.                                                      *)

\* the Documents of the files of dir, file after file in the order of the
\* file list, each file's as its own load gives them
LoadedInFileOrder(dir) ==
    IF ~dir.exists THEN <<>>
    ELSE Flatten([j \in 1..Len(FilesOf(dir)) |-> LoadSingle(dir, FilesOf(dir)[j]).value])

\* C28: whatever the order in which the worker tasks finish, load_documents
\* returns the concatenation, in the order of the file list, of what each
\* file's load returns: nothing lost, nothing twice.
C28_LoadOrderIndependent ==
    (call.fn = "pool" /\ call.pc = "returned") =>
        call.result = LoadedInFileOrder(call.dir)

\* C28 witness: three files loaded, and the task of the first file was not
\* the first to finish
C28_Witness ==
    /\ call.fn = "pool" /\ call.pc = "returned"
    /\ Len(call.files) = 3
    /\ call.finished[1] # 1
    /\ \A j \in 1..3 : call.batches[j] # <<>>

-----------------------------------------------------------------------------
(* The file of an ingested URL.                                            *)

IngestSucceeded == call.fn = "ingest_url" /\ ~call.result.raised /\ call.result.value[1]

SameHostAndPath(u, v) == u.netloc = v.netloc /\ u.path = v.path

\* C25: the file a successful ingest_url writes is named by the URL's host
\* and path only; ingesting a URL again overwrites its file, and ingesting
\* a URL of another host or path adds a file and leaves the file saved for
\* the earlier URL as it was.
C25_UrlFileNaming ==
    IngestSucceeded =>
        \A earlier \in Urls :
            /\ SameHostAndPath(earlier, call.url) =>
                    UrlFileName(earlier) = UrlFileName(call.url)
            /\ (call.dir = SavedFor(earlier) /\ SameHostAndPath(earlier, call.url)) =>
                    Cardinality(call.dir_after) = 1
            /\ (call.dir = SavedFor(earlier) /\ ~SameHostAndPath(earlier, call.url)) =>
                    /\ SavedFor(earlier) \subseteq call.dir_after
                    /\ Cardinality(call.dir_after) = 2

-----------------------------------------------------------------------------
(* The statistics of the index.                                            *)

\* C27: get_index_stats never raises; for a store it reports the number of
\* entries, the number of distinct source names and the number of distinct
\* (source name, page) pairs, so unique_sources <= total_pages <=
\* total_chunks; for no store, and on an error, every count is zero.
C27_IndexStats ==
    call.fn = "get_index_stats" =>
        LET e == call.store.entries
            stats == call.result.value
            names == {SourceName(e[i]) : i \in 1..Len(e)}
            pairs == {<<SourceName(e[i]), e[i].page>> : i \in 1..Len(e)}
        IN  /\ ~call.result.raised
            /\ IF call.store.present /\ ~call.fails
               THEN /\ stats.total_chunks = Len(e)
                    /\ stats.unique_sources = Cardinality(names)
                    /\ stats.total_pages = Cardinality(pairs)
               ELSE /\ stats.total_chunks = 0
                    /\ stats.unique_sources = 0
                    /\ stats.total_pages = 0
            /\ stats.unique_sources <= stats.total_pages
            /\ stats.total_pages <= stats.total_chunks

\* C27 witness: three entries, two of one page, in files of the same name
\* in two directories
C27_Witness ==
    /\ call.fn = "get_index_stats" /\ call.store.present /\ ~call.fails
    /\ Len(call.store.entries) = 3
    /\ call.store.entries[1] = call.store.entries[2]
    /\ call.store.entries[1].source = Some(<<"data", <<"A">>>>)
    /\ call.store.entries[3].source = Some(<<"web", <<"A">>>>)
    /\ call.store.entries[3].page # call.store.entries[1].page
    /\ call.result.value.total_chunks = 3
    /\ call.result.value.total_pages = 2
    /\ call.result.value.unique_sources = 1

-----------------------------------------------------------------------------
(* A store and an embedding model of another dimensionality.               *)

\* C24: a store used with an embedding model whose vectors have another
\* size than the store's is rejected at load, before any retrieval, and is
\* reported neither as an absent index nor as an empty result set.
C24_DimensionMismatchRejected ==
    (/\ call.fn = "use_store"
     /\ call.built # None
     /\ Dimension(call.built[1]) # Dimension(call.model))
        => /\ call.loaded.raised
           /\ call.loaded # Returns(None)
           /\ call.rows # Returns(<<>>)

-----------------------------------------------------------------------------
(* The conversation over several turns.                                    *)

\* the message is a user turn or the final question of this text
Mentions(message, q) ==
    /\ message.type = "human"
    /\ \/ Len(message.content) = 1 /\ message.content[1] = q
       \/ Len(message.content) = 3 /\ message.content[3] = q

\* the messages the open stream was given
Assembled ==
    BuildMessages(run.pending[1], [j \in 1..Len(out.docs) |-> db.entries[out.docs[j]]],
                  run.chat_history, None)

\* C29: in both callers the question being answered is in the assembled
\* messages exactly once, as the last message: the history passed does not
\* hold it (the UI passes the history without its last entry, the CLI
\* appends the turn after the stream).
C29_PendingOnce ==
    run.pc = "stream" =>
        /\ Cardinality({i \in 1..Len(Assembled) : Mentions(Assembled[i], run.pending[1])}) = 1
        /\ Mentions(Last(Assembled), run.pending[1])
        /\ \A i \in 1..Len(run.chat_history) :
               run.chat_history[i] # UserMsg(run.pending[1])
        /\ run.app = "ui" => run.history = Append(run.chat_history, UserMsg(run.pending[1]))
        /\ run.app = "cli" => run.history = run.chat_history

\* C29 witness: the second question of a conversation is being answered,
\* with the first turn in the messages
C29_Witness ==
    /\ run.pc = "stream" /\ run.app = "ui"
    /\ Len(run.chat_history) = 2
    /\ Len(Assembled) = 4
    /\ Mentions(Assembled[2], "about A")
    /\ Mentions(Assembled[4], "about B")

\* no two neighbours in the history have the same role
Alternates(history) ==
    \A i \in 1..(Len(history) - 1) : history[i].role # history[i + 1].role

\* a chat tab without widget event that finds the history ending in a user
\* message goes on to answer that message; the end of a stream appends one
\* assistant message after a user message; regenerate takes off the last
\* assistant message and nothing else
ChatStep ==
    /\ (run.app = "ui" /\ run.pc = "chat" /\ run.ev = NoEvent
            /\ run.history # <<>> /\ Last(run.history).role = "user")
        => /\ run'.pc = "generate"
           /\ run'.pending = Some(Last(run.history).content[1])
           /\ run'.history = run.history
    /\ (run.app = "ui" /\ run.pc = "stream" /\ run'.pc # "stream")
        => /\ Last(run.history).role = "user"
           /\ Len(run'.history) = Len(run.history) + 1
           /\ Front(run'.history) = run.history
           /\ Last(run'.history).role = "assistant"
    /\ (run.app = "ui" /\ run.pc = "chat" /\ run.ev.kind = "regenerate")
        => /\ Last(run.history).role = "assistant"
           /\ run'.history = Front(run.history)
           /\ run'.pc = "init"

\* C30: in the chat UI, over chat input, quick prompts, follow-up clicks,
\* regenerate, clear and new session, with every generation run to its
\* end, the history never holds two neighbouring messages of one role.
C30_HistoryAlternates ==
    /\ [](run.app = "ui" => Alternates(run.history))
    /\ [][ChatStep]_vars

\* C30 witness: two turns are in the history and the second answer has
\* just been taken off by regenerate
C30_Witness ==
    /\ run.app = "ui" /\ run.pc = "init" /\ run.ev = NoEvent
    /\ Len(run.history) = 3
    /\ run.history[3].role = "user"
    /\ run.history[2].role = "assistant"
    /\ run.followups = <<>>

====
